---- MODULE Spec2Model ----
(***************************************************************************)
(* The analyze-seo edge function (supabase/functions/analyze-seo/index.ts) *)
(* as a state machine: the module-level cache and rate-limiter maps, the   *)
(* clock read by Date.now(), and every request handler in flight, each     *)
(* stopped at one of its await points.                                     *)
(*                                                                         *)
(* JSON objects are TLA+ records (functions from field names), so a field  *)
(* that the code leaves out is absent from the DOMAIN, and an object       *)
(* spread {...a, k: v} is [k |-> v] @@ a.  An optional value is a sequence *)
(* of length 0 (absent / null) or 1.                                       *)
(***************************************************************************)
EXTENDS Integers, Sequences, FiniteSets, TLC

\* now: the clock (ms).  cache, rateLimits: the two module-level maps.
\* reqs: the requests received so far, in order of arrival, each with the
\* place its handler has reached.  admitted: per identity, the times at
\* which checkRateLimit admitted a request (history, never read by the code).
\* seoData, seoScore: a metadata record and, once calculateSEOScore has been
\* applied to it, <<its score>>, for the specification that exercises the
\* scorer on its own.  uiScore: <<the score>> the scorer of the UI component
\* gives the same record.  page: a parsed document, for the specification
\* that exercises the extractor on its own.
VARIABLES now, cache, rateLimits, reqs, admitted, seoData, seoScore, uiScore, page

vars == <<now, cache, rateLimits, reqs, admitted, seoData, seoScore, uiScore, page>>

serverVars == <<now, cache, rateLimits, reqs, admitted>>

scorerVars == <<seoData, seoScore>>

pureVars == <<scorerVars, uiScore, page>>

-----------------------------------------------------------------------------
(* Program constants                                                       *)

RATE_LIMIT == 10

RATE_WINDOW == 60000

CACHE_TTL == 3600000

MAX_BATCH == 5

CorsHeaders == {"Access-Control-Allow-Origin", "Access-Control-Allow-Headers"}

JsonHeaders == CorsHeaders \cup {"Content-Type"}

-----------------------------------------------------------------------------
(* Bounds of the model                                                     *)

MaxRequests == 2

MaxOverlapRequests == 2

MaxBatchRequests == 1

MaxCapRequests == 1

MaxRateRequests == 3

MaxIsolationRequests == 1

MaxValidateRequests == 2

MaxErrorRequests == 2

MaxThrottleRequests == 2

MaxAnonymousRequests == 2

MaxPreflightRequests == 2

MaxPipelineRequests == 2

MaxGateRequests == 1

MaxOutcomeRequests == 3

MaxExpiryRequests == 3

MaxLiveRequests == 2

MaxElements == 3

-----------------------------------------------------------------------------
(* Inputs                                                                  *)

UrlA == "https://a.example/"

UrlB == "http://b.example/page"

UrlFtp == "ftp://c.example/"

UrlBad == "not-a-url"

AllUrls == {UrlA, UrlB, UrlFtp, UrlBad}

\* new URL(u) succeeds exactly for the absolute URLs of the input set.
ParsesAsUrl(u) == u \in {UrlA, UrlB, UrlFtp}

\* urlObj.protocol of the URLs that parse.
Protocol(u) ==
  CASE u = UrlA -> "https:"
    [] u = UrlB -> "http:"
    [] u = UrlFtp -> "ftp:"
    [] OTHER -> ""

\* protocol.match(/^https?:/)
MatchesHttp(p) == p \in {"http:", "https:"}

\* try { new URL(url); protocol check } catch { 400 }
ValidUrl(u) == ParsesAsUrl(u) /\ MatchesHttp(Protocol(u))

\* The x-forwarded-for header: absent, empty, or an address.
NoHeader == <<>>

Headers == {NoHeader, <<"">>, <<"203.0.113.7">>}

\* req.headers.get('x-forwarded-for') || 'unknown'
\* Variant: only a missing header falls back to 'unknown' (?? instead of ||).
ClientIpNullish(xff) == IF xff = <<>> THEN "unknown" ELSE xff[1]

ClientIp(xff) == IF xff = <<>> \/ xff[1] = "" THEN "unknown" ELSE xff[1]

Identities == {ClientIp(h) : h \in Headers}

\* A request body: json = FALSE is a body req.json() rejects; url = "" is a
\* missing (or empty) url; hasUrls says that urls is present and an array;
\* object = FALSE is a body whose JSON value is null, which the
\* destructuring `const { url, urls } = ...` cannot take apart.
Body(json, url, hasUrls, urls) ==
  [json |-> json, url |-> url, hasUrls |-> hasUrls, urls |-> urls, object |-> TRUE]

SingleBody(u) == Body(TRUE, u, FALSE, <<>>)

BatchBody(us) == Body(TRUE, "", TRUE, us)

EmptyBody == Body(TRUE, "", FALSE, <<>>)

MalformedBody == Body(FALSE, "", FALSE, <<>>)

\* The body `null`.
JsonNullBody == [EmptyBody EXCEPT !.object = FALSE]

-----------------------------------------------------------------------------
(* Documents and the metadata extractor                                    *)

El(tag, attrs, text) == [tag |-> tag, attrs |-> attrs, text |-> text]

PageRich ==
  << El("html", [lang |-> "en"], ""),
     El("meta", [charset |-> "utf-8"], ""),
     El("title", <<>>, "Rich page"),
     El("meta", [name |-> "description", content |-> "A rich page"], ""),
     El("meta", [content |-> "Rich OG", property |-> "og:title"], ""),
     El("meta", [content |-> "https://a.example/i.png", property |-> "og:image"], ""),
     El("meta", [name |-> "viewport", content |-> "width=device-width"], ""),
     El("meta", [name |-> "robots", content |-> "index, follow"], ""),
     El("link", [rel |-> "canonical", href |-> "https://a.example/"], ""),
     El("h1", <<>>, "Rich heading") >>

PagePoor ==
  << El("html", <<>>, ""),
     El("title", <<>>, "Poor page"),
     El("meta", [name |-> "robots", content |-> "noindex"], "") >>

Pages == {PageRich, PagePoor}

HasAttr(e, a) == a \in DOMAIN e.attrs

\* Variant: the last matching element is taken.
Last(S) == IF S = {} THEN 0 ELSE CHOOSE i \in S : \A j \in S : i >= j

\* doc.querySelector(sel): the index of the first matching element, 0 if none.
\* S is the set of indices of the matching elements.
First(S) == IF S = {} THEN 0 ELSE CHOOSE i \in S : \A j \in S : i <= j

\* null and undefined, as a token that no document contains.
Null == "(null)"

\* element?.getAttribute(a): null when the attribute is missing, undefined
\* when there is no element.
getAttribute(doc, i, a) ==
  IF i = 0 THEN Null
  ELSE IF HasAttr(doc[i], a) THEN doc[i].attrs[a] ELSE Null

\* element?.textContent
textContent(doc, i) == IF i = 0 THEN Null ELSE doc[i].text

\* v || ''
OrEmpty(v) == IF v = Null \/ v = "" THEN "" ELSE v

\* element?.getAttribute(a) || ''
AttrOf(doc, i, a) == OrEmpty(getAttribute(doc, i, a))

\* element?.textContent || ''
TextOf(doc, i) == OrEmpty(textContent(doc, i))

MetaBy(doc, a, v) ==
  LET P(e) == e.tag = "meta" /\ HasAttr(e, a) /\ e.attrs[a] = v
  IN First({i \in DOMAIN doc : P(doc[i])})

\* Variant: without the fallback to the property attribute.
getMetaContentNoFallback(doc, name, property) ==
  IF property # ""
  THEN AttrOf(doc, MetaBy(doc, "property", property), "content")
  ELSE AttrOf(doc, MetaBy(doc, "name", name), "content")

getMetaContent(doc, name, property) ==
  IF property # ""
  THEN AttrOf(doc, MetaBy(doc, "property", property), "content")
  ELSE LET byName == MetaBy(doc, "name", name)
           element == IF byName # 0 THEN byName ELSE MetaBy(doc, "property", name)
       IN AttrOf(doc, element, "content")

TagIs(doc, t) == LET P(e) == e.tag = t IN First({i \in DOMAIN doc : P(doc[i])})

extractMetaData(html, url) ==
  LET canonicalEl ==
        LET P(e) == e.tag = "link" /\ HasAttr(e, "rel") /\ e.attrs.rel = "canonical"
        IN First({i \in DOMAIN html : P(html[i])})
      charsetEl ==
        LET P(e) == e.tag = "meta" /\ HasAttr(e, "charset")
        IN First({i \in DOMAIN html : P(html[i])})
  IN [ url |-> url,
       lang |-> AttrOf(html, TagIs(html, "html"), "lang"),
       charset |-> AttrOf(html, charsetEl, "charset"),
       title |-> TextOf(html, TagIs(html, "title")),
       description |-> getMetaContent(html, "description", ""),
       ogTitle |-> getMetaContent(html, "", "og:title"),
       ogDescription |-> getMetaContent(html, "", "og:description"),
       ogImage |-> getMetaContent(html, "", "og:image"),
       ogType |-> getMetaContent(html, "", "og:type"),
       twitterCard |-> getMetaContent(html, "twitter:card", ""),
       twitterTitle |-> getMetaContent(html, "twitter:title", ""),
       twitterDescription |-> getMetaContent(html, "twitter:description", ""),
       twitterImage |-> getMetaContent(html, "twitter:image", ""),
       canonical |-> AttrOf(html, canonicalEl, "href"),
       keywords |-> getMetaContent(html, "keywords", ""),
       h1 |-> TextOf(html, TagIs(html, "h1")),
       metaRobots |-> getMetaContent(html, "robots", ""),
       viewport |-> getMetaContent(html, "viewport", "") ]

-----------------------------------------------------------------------------
(* The scorer                                                              *)

\* metaRobots.includes('noindex'), on the robots values of the input set.
IncludesNoindex(s) == s \in {"noindex", "noindex, nofollow", "follow, noindex"}

Pts(cond, n) == IF cond THEN n ELSE 0

\* if (data.f): the optional field f is present and not the empty string.
Truthy(data, f) == f \in DOMAIN data /\ data[f] # ""

\* Variant: the title and the Open Graph title are each worth 8 points
\* (likewise the descriptions), instead of 8 for either.
calculateSEOScoreCountsBoth(data) ==
  LET basicScore == Pts(Truthy(data, "title"), 15) + Pts(Truthy(data, "description"), 15)
                    + Pts(Truthy(data, "h1"), 10)
      socialScore == Pts(Truthy(data, "ogTitle"), 8) + Pts(Truthy(data, "title"), 8)
                     + Pts(Truthy(data, "ogDescription"), 8)
                     + Pts(Truthy(data, "description"), 8)
                     + Pts(Truthy(data, "ogImage"), 14)
      technicalScore == Pts(Truthy(data, "canonical"), 10) + Pts(Truthy(data, "lang"), 5)
                        + Pts(Truthy(data, "viewport"), 5) + Pts(Truthy(data, "charset"), 5)
                        + Pts(~Truthy(data, "metaRobots")
                              \/ ~IncludesNoindex(data.metaRobots), 5)
  IN [ total |-> basicScore + socialScore + technicalScore,
       breakdown |-> [basic |-> basicScore, social |-> socialScore,
                      technical |-> technicalScore] ]

\* Variant: the robots points need a robots value (without "noindex").
calculateSEOScoreNeedsRobots(data) ==
  LET basicScore == Pts(Truthy(data, "title"), 15) + Pts(Truthy(data, "description"), 15)
                    + Pts(Truthy(data, "h1"), 10)
      socialScore == Pts(Truthy(data, "ogTitle") \/ Truthy(data, "title"), 8)
                     + Pts(Truthy(data, "ogDescription") \/ Truthy(data, "description"), 8)
                     + Pts(Truthy(data, "ogImage"), 14)
      technicalScore == Pts(Truthy(data, "canonical"), 10) + Pts(Truthy(data, "lang"), 5)
                        + Pts(Truthy(data, "viewport"), 5) + Pts(Truthy(data, "charset"), 5)
                        + Pts(Truthy(data, "metaRobots")
                              /\ ~IncludesNoindex(data.metaRobots), 5)
  IN [ total |-> basicScore + socialScore + technicalScore,
       breakdown |-> [basic |-> basicScore, social |-> socialScore,
                      technical |-> technicalScore] ]

\* Variant: the social points for a title go to a record that has exactly
\* one of title and ogTitle (!== instead of ||).
calculateSEOScoreEitherOr(data) ==
  LET basicScore == Pts(Truthy(data, "title"), 15) + Pts(Truthy(data, "description"), 15)
                    + Pts(Truthy(data, "h1"), 10)
      socialScore == Pts(Truthy(data, "ogTitle") # Truthy(data, "title"), 8)
                     + Pts(Truthy(data, "ogDescription") \/ Truthy(data, "description"), 8)
                     + Pts(Truthy(data, "ogImage"), 14)
      technicalScore == Pts(Truthy(data, "canonical"), 10) + Pts(Truthy(data, "lang"), 5)
                        + Pts(Truthy(data, "viewport"), 5) + Pts(Truthy(data, "charset"), 5)
                        + Pts(~Truthy(data, "metaRobots")
                              \/ ~IncludesNoindex(data.metaRobots), 5)
  IN [ total |-> basicScore + socialScore + technicalScore,
       breakdown |-> [basic |-> basicScore, social |-> socialScore,
                      technical |-> technicalScore] ]

calculateSEOScore(data) ==
  LET basicScore == Pts(Truthy(data, "title"), 15) + Pts(Truthy(data, "description"), 15)
                    + Pts(Truthy(data, "h1"), 10)
      socialScore == Pts(Truthy(data, "ogTitle") \/ Truthy(data, "title"), 8)
                     + Pts(Truthy(data, "ogDescription") \/ Truthy(data, "description"), 8)
                     + Pts(Truthy(data, "ogImage"), 14)
      technicalScore == Pts(Truthy(data, "canonical"), 10) + Pts(Truthy(data, "lang"), 5)
                        + Pts(Truthy(data, "viewport"), 5) + Pts(Truthy(data, "charset"), 5)
                        + Pts(~Truthy(data, "metaRobots")
                              \/ ~IncludesNoindex(data.metaRobots), 5)
  IN [ total |-> basicScore + socialScore + technicalScore,
       breakdown |-> [basic |-> basicScore, social |-> socialScore,
                      technical |-> technicalScore] ]

\* calculateSEOScore of the UI component (components/SEOTester.tsx).
SEOTester_calculateSEOScore(data) ==
  LET basicScore == Pts(Truthy(data, "title"), 15) + Pts(Truthy(data, "description"), 15)
                    + Pts(Truthy(data, "h1"), 10)
      socialScore == Pts(Truthy(data, "ogTitle") \/ Truthy(data, "title"), 8)
                     + Pts(Truthy(data, "ogDescription") \/ Truthy(data, "description"), 8)
                     + Pts(Truthy(data, "ogImage"), 14)
      technicalScore == Pts(Truthy(data, "canonical"), 10) + Pts(Truthy(data, "lang"), 5)
                        + Pts(Truthy(data, "viewport"), 5) + Pts(Truthy(data, "charset"), 5)
                        + Pts(~Truthy(data, "metaRobots")
                              \/ ~IncludesNoindex(data.metaRobots), 5)
      total == basicScore + socialScore + technicalScore
  IN [ total |-> total,
       breakdown |-> [basic |-> basicScore, social |-> socialScore,
                      technical |-> technicalScore] ]

-----------------------------------------------------------------------------
(* The rate limiter                                                        *)

\* Variant: the filter keeps a timestamp that is exactly 60 seconds old.
RecentInclusive(requests, t) ==
  SelectSeq(requests, LAMBDA time : t - time <= RATE_WINDOW)

\* Variant: nothing is filtered out.
RecentUnfiltered(requests, t) == requests

\* requests.filter(time => now - time < 60000)
Recent(requests, t) == SelectSeq(requests, LAMBDA time : t - time < RATE_WINDOW)

\* Variant: the limit test is > instead of >=.
checkRateLimitOffByOne(rl, t, ip) ==
  LET recentRequests == Recent(rl[ip], t)
  IN IF Len(recentRequests) > RATE_LIMIT
     THEN [ok |-> FALSE, rateLimits |-> rl]
     ELSE [ok |-> TRUE,
           rateLimits |-> [rl EXCEPT ![ip] = Append(recentRequests, t)]]

\* Variant: the timestamp is recorded before the limit is tested.
checkRateLimitRecordFirst(rl, t, ip) ==
  LET recentRequests == Append(Recent(rl[ip], t), t)
      stored == [rl EXCEPT ![ip] = recentRequests]
  IN IF Len(recentRequests) > RATE_LIMIT
     THEN [ok |-> FALSE, rateLimits |-> stored]
     ELSE [ok |-> TRUE, rateLimits |-> stored]

\* Variant: the new timestamp is put in front (unshift instead of push).
checkRateLimitUnshift(rl, t, ip) ==
  LET recentRequests == Recent(rl[ip], t)
  IN IF Len(recentRequests) >= RATE_LIMIT
     THEN [ok |-> FALSE, rateLimits |-> rl]
     ELSE [ok |-> TRUE,
           rateLimits |-> [rl EXCEPT ![ip] = <<t>> \o recentRequests]]

\* Variant: an admitted call pushes its timestamp onto every stored window.
checkRateLimitShared(rl, t, ip) ==
  LET requests == rl[ip]
      recentRequests == Recent(requests, t)
  IN IF Len(recentRequests) >= RATE_LIMIT
     THEN [ok |-> FALSE, rateLimits |-> rl]
     ELSE [ok |-> TRUE,
           rateLimits |-> [other \in DOMAIN rl |->
                             IF other = ip THEN Append(recentRequests, t)
                             ELSE Append(rl[other], t)]]

\* checkRateLimit(ip) at time t on the map rl (an identity without a stored
\* window has <<>>): the verdict and the map afterwards.
checkRateLimit(rl, t, ip) ==
  LET requests == rl[ip]
      recentRequests == Recent(requests, t)
  IN IF Len(recentRequests) >= RATE_LIMIT
     THEN [ok |-> FALSE, rateLimits |-> rl]
     ELSE [ok |-> TRUE,
           rateLimits |-> [rl EXCEPT ![ip] = Append(recentRequests, t)]]

-----------------------------------------------------------------------------
(* The cache                                                               *)

NoEntry == <<>>

Entry(result, t) == <<[data |-> result, timestamp |-> t]>>

\* cached && Date.now() - cached.timestamp < CACHE_TTL
CacheLive(cached, t) == cached # NoEntry /\ t - cached[1].timestamp < CACHE_TTL

\* cache.set(u, { data: result, timestamp: Date.now() })
CacheSet(c, u, result, t) == [c EXCEPT ![u] = Entry(result, t)]

-----------------------------------------------------------------------------
(* Responses and error messages                                            *)

Response(status, headers, body) ==
  [status |-> status, headers |-> headers, body |-> body]

NullBody == <<>>

MsgNotOkSingle == "Failed to fetch website: 404"

MsgNotOkBatch == "Failed to fetch: 404"

MsgNoContentSingle == "No content received from the website"

MsgNoContentBatch == "No content received"

MsgTransportA == "error sending request for url"

MsgTransportB == "fetch failed"

MsgJson == "Unexpected token < in JSON at position 0"

MsgDestructure == "Cannot destructure property 'url' of 'null' as it is null."

\* error.message.includes('fetch'), on the messages of the model.
IncludesFetch(msg) == msg \in {MsgNotOkSingle, MsgNotOkBatch, MsgTransportB}

PreflightResponse == Response(200, CorsHeaders, NullBody)

RateLimitedResponse ==
  Response(429, JsonHeaders,
           [error |-> "Rate limit exceeded. Please try again in a minute.",
            retryAfter |-> 60])

TooManyUrlsResponse ==
  Response(400, JsonHeaders, [error |-> "Maximum 5 URLs allowed per batch request"])

MissingUrlResponse ==
  Response(400, JsonHeaders,
           [error |-> "URL parameter is required",
            hint |-> "Send {url} or {urls} for batch"])

InvalidUrlResponse ==
  Response(400, JsonHeaders,
           [error |-> "Invalid URL format",
            hint |-> "Please provide a valid URL starting with http:// or https://"])

\* The outer catch of serve: every thrown value of the model is an Error.
CatchResponse(msg) ==
  IF IncludesFetch(msg)
  THEN Response(502, JsonHeaders,
                [error |-> "Failed to fetch the website. The site may be blocking requests or experiencing issues.",
                 hint |-> "Try a different URL or check if the website is accessible",
                 success |-> FALSE])
  ELSE Response(500, JsonHeaders, [error |-> msg, success |-> FALSE])

-----------------------------------------------------------------------------
(* What the page fetcher can answer                                        *)

FetchOk == [kind |-> "ok"]

FetchNotOk == [kind |-> "notok"]

FetchReject(msg) == [kind |-> "reject", message |-> msg]

FetchOutcomes == {FetchOk, FetchNotOk, FetchReject(MsgTransportA), FetchReject(MsgTransportB)}

JsonContents(html) == [html |-> html, kind |-> "contents"]

JsonEmpty == [kind |-> "empty"]

JsonOutcomes == {JsonContents(p) : p \in Pages} \cup {JsonEmpty, FetchReject(MsgJson)}

-----------------------------------------------------------------------------
(* One pipeline run: the single-URL pipeline, or one slot of a batch       *)

\* st: "fetch" = awaiting fetch(proxyUrl), "body" = awaiting response.json(),
\* "done".  out: the run's result object once it has one.  The other fields
\* record what the run did: lookups and fetches count its cache.get and
\* fetch calls; checkedAt is the time of its cache check, seen the entry
\* cache.get returned then, hit whether that entry was live; got lists what
\* the fetcher answered; wrote is the cache entry as its cache.set left it;
\* doneAt is the time it ended.
NewRun(c, t, u) ==
  [url |-> u, st |-> "done", out |-> <<>>, lookups |-> 1, fetches |-> 0,
   checkedAt |-> t, seen |-> c[u], hit |-> FALSE, got |-> <<>>,
   wrote |-> <<>>, doneAt |-> <<t>>]

\* extractMetaData and calculateSEOScore on every page and URL of the input
\* sets, evaluated once.  The specifications of the server take a host whose
\* global scope provides DOMParser; SpecExtract has both kinds of host.
Extracted == [html \in Pages, u \in AllUrls |-> extractMetaData(html, u)]

Scored == [html \in Pages, u \in AllUrls |-> calculateSEOScore(Extracted[html, u])]

\* { success: true, data: seoData, score: seoScore, cached: false }
SingleResult(html, u) ==
  [success |-> TRUE, data |-> Extracted[html, u], score |-> Scored[html, u],
   cached |-> FALSE]

\* { data: seoData, score: seoScore, success: true }
BatchResult(html, u) ==
  [data |-> Extracted[html, u], score |-> Scored[html, u], success |-> TRUE]

\* { ...cached.data, cached: true }
SingleHit(cached) == [cached |-> TRUE] @@ cached[1].data

\* { url: u, ...cached.data, cached: true }
BatchHit(u, cached) == [cached |-> TRUE] @@ cached[1].data @@ [url |-> u]

\* { url: u, ...result }
BatchFresh(u, result) == result @@ [url |-> u]

\* { url: u, success: false, error: error.message }
BatchError(u, msg) == [url |-> u, success |-> FALSE, error |-> msg]

\* The first synchronous part of one batch callback: the cache check, then
\* the fetch call on a miss.
StartBatchRun(c, t, u) ==
  IF CacheLive(c[u], t)
  THEN [NewRun(c, t, u) EXCEPT !.hit = TRUE, !.out = <<BatchHit(u, c[u])>>]
  ELSE [NewRun(c, t, u) EXCEPT !.st = "fetch", !.fetches = 1, !.doneAt = <<>>]

\* Variant: the results in the order the runs ended.
BatchResultsByCompletion(r) ==
  [n \in 1 .. Len(r.order) |-> r.runs[r.order[n]].out[1]]

\* Promise.all: the results by position in urls.
BatchResults(r) == [k \in 1 .. Len(r.runs) |-> r.runs[k].out[1]]

\* Variant: a batch in which no URL succeeded is answered as a failure.
BatchResponseAllOrNothing(r) ==
  LET some == \E k \in DOMAIN r.runs : r.runs[k].out[1].success
  IN Response(IF some THEN 200 ELSE 502, JsonHeaders,
              [success |-> some, results |-> BatchResults(r)])

\* The answer of a batch whose runs have all ended.
BatchResponse(r) ==
  Response(200, JsonHeaders, [success |-> TRUE, results |-> BatchResults(r)])

AllDone(runs) == \A k \in 1 .. Len(runs) : runs[k].st = "done"

\* A batch whose runs have all settled answers; otherwise it keeps waiting.
SettleBatch(r) ==
  IF AllDone(r.runs)
  THEN [r EXCEPT !.pc = "done", !.resp = <<BatchResponse(r)>>]
  ELSE [r EXCEPT !.pc = "batch"]

\* Variant: the cap test is >= instead of >.
TooManyUrlsInclusive(urls) == Len(urls) >= MAX_BATCH

\* urls.length > 5
TooManyUrls(urls) == Len(urls) > MAX_BATCH

Respond(r, resp) == [r EXCEPT !.pc = "done", !.resp = <<resp>>]

\* serve from `const { url, urls } = await req.json()` to its next await
\* (or its return), at time t with cache c.
Dispatch(r, c, t) ==
  IF ~r.body.json THEN Respond(r, CatchResponse(MsgJson))
  ELSE IF ~r.body.object THEN Respond(r, CatchResponse(MsgDestructure))
  ELSE IF r.body.hasUrls
  THEN IF TooManyUrls(r.body.urls)
       THEN Respond(r, TooManyUrlsResponse)
       ELSE LET urls == r.body.urls
                runs == [k \in 1 .. Len(urls) |-> StartBatchRun(c, t, urls[k])]
                order == SelectSeq([k \in 1 .. Len(urls) |-> k],
                                   LAMBDA k : runs[k].st = "done")
            IN SettleBatch([r EXCEPT !.runs = runs, !.order = order])
  ELSE IF r.body.url = "" THEN Respond(r, MissingUrlResponse)
  ELSE LET url == r.body.url
           cached == c[url]
       IN IF CacheLive(cached, t)
          THEN Respond([r EXCEPT !.runs = <<[NewRun(c, t, url) EXCEPT !.hit = TRUE,
                                               !.out = <<SingleHit(cached)>>]>>],
                       Response(200, JsonHeaders, SingleHit(cached)))
          ELSE IF ~ValidUrl(url)
          THEN Respond([r EXCEPT !.runs = <<NewRun(c, t, url)>>], InvalidUrlResponse)
          ELSE [r EXCEPT !.pc = "single",
                         !.runs = <<[NewRun(c, t, url) EXCEPT !.st = "fetch",
                                                            !.fetches = 1,
                                                            !.doneAt = <<>>]>>]

\* Variant: an error thrown in a batch run is not caught in the run; it
\* reaches the outer catch and answers the whole request.
FailRunEscalates(r, k, t, o, msg) ==
  Respond([r EXCEPT !.runs[k].st = "done", !.runs[k].got = Append(@, o),
                    !.runs[k].doneAt = <<t>>],
          CatchResponse(msg))

\* Variant: a failed batch run records its error entry but does not settle
\* the batch.
FailRunNeverSettles(r, k, t, o, msg) ==
  LET r2 == [r EXCEPT !.runs[k].st = "done", !.runs[k].got = Append(@, o),
                      !.runs[k].doneAt = <<t>>]
  IN IF r.pc = "single"
     THEN Respond(r2, CatchResponse(msg))
     ELSE [r2 EXCEPT !.runs[k].out = <<BatchError(r.runs[k].url, msg)>>,
                     !.order = Append(@, k)]

\* Variant: a failed fetch is issued once more before the run gives up.
FailRunRetries(r, k, t, o, msg) ==
  IF r.runs[k].fetches < 2
  THEN [r EXCEPT !.runs[k].st = "fetch", !.runs[k].got = Append(@, o),
                 !.runs[k].fetches = @ + 1]
  ELSE LET r2 == [r EXCEPT !.runs[k].st = "done", !.runs[k].got = Append(@, o),
                           !.runs[k].doneAt = <<t>>]
       IN IF r.pc = "single"
          THEN Respond(r2, CatchResponse(msg))
          ELSE SettleBatch([r2 EXCEPT !.runs[k].out = <<BatchError(r.runs[k].url, msg)>>,
                                      !.order = Append(@, k)])

\* Run k of request r ends at time t with a thrown Error(msg).
FailRun(r, k, t, o, msg) ==
  LET r2 == [r EXCEPT !.runs[k].st = "done", !.runs[k].got = Append(@, o),
                      !.runs[k].doneAt = <<t>>]
  IN IF r.pc = "single"
     THEN Respond(r2, CatchResponse(msg))
     ELSE SettleBatch([r2 EXCEPT !.runs[k].out = <<BatchError(r.runs[k].url, msg)>>,
                                 !.order = Append(@, k)])

\* Run k of request r ends at time t with the page html analysed; c2 is the
\* cache after its cache.set.
SucceedRun(r, k, t, o, html, c2) ==
  LET u == r.runs[k].url
      r2 == [r EXCEPT !.runs[k].st = "done", !.runs[k].got = Append(@, o),
                      !.runs[k].doneAt = <<t>>, !.runs[k].wrote = c2[u]]
  IN IF r.pc = "single"
     THEN Respond([r2 EXCEPT !.runs[k].out = <<SingleResult(html, u)>>],
                  Response(200, JsonHeaders, SingleResult(html, u)))
     ELSE SettleBatch([r2 EXCEPT !.runs[k].out = <<BatchFresh(u, BatchResult(html, u))>>,
                                 !.order = Append(@, k)])

\* The result object a successful run stores in the cache.
StoredResult(r, html, u) ==
  IF r.pc = "single" THEN SingleResult(html, u) ELSE BatchResult(html, u)

-----------------------------------------------------------------------------
(* The state machine                                                       *)

Init ==
  /\ now = 0
  /\ cache = [u \in AllUrls |-> NoEntry]
  /\ rateLimits = [ip \in Identities |-> <<>>]
  /\ reqs = <<>>
  /\ admitted = [ip \in Identities |-> <<>>]
  /\ seoData = [url |-> UrlA]
  /\ seoScore = <<>>
  /\ uiScore = <<>>
  /\ page = <<>>

\* Admissions of identity ip less than 60 seconds before t, by the history.
AdmittedWithin(ip, t) ==
  Cardinality({n \in 1 .. Len(admitted[ip]) : t - admitted[ip][n] < RATE_WINDOW})

\* A request as it arrives.  at and prior record the arrival: its time, and
\* how many requests of the same identity were admitted in the 60 seconds
\* before it.  order lists the runs of a batch in the order they ended.
NewRequest(xff, method, body) ==
  [xff |-> xff, method |-> method, body |-> body, pc |-> "json",
   runs |-> <<>>, order |-> <<>>, resp |-> <<>>,
   at |-> now, prior |-> AdmittedWithin(ClientIp(xff), now)]

\* Variant: the 429 answer is missing; a request over the limit is handled
\* like an admitted one.
ArriveUnthrottled(maxReq, xff, method, body) ==
  /\ Len(reqs) < maxReq
  /\ LET verdict == checkRateLimit(rateLimits, now, ClientIp(xff))
     IN /\ rateLimits' = verdict.rateLimits
        /\ admitted' = IF verdict.ok
                        THEN [admitted EXCEPT ![ClientIp(xff)] = Append(@, now)]
                        ELSE admitted
        /\ reqs' = Append(reqs, NewRequest(xff, method, body))
  /\ UNCHANGED <<now, cache, pureVars>>

\* Variant: the rate-limit check comes before the test for OPTIONS.
ArriveThrottlesPreflight(maxReq, xff, method, body) ==
  /\ Len(reqs) < maxReq
  /\ LET verdict == checkRateLimit(rateLimits, now, ClientIp(xff))
     IN /\ rateLimits' = verdict.rateLimits
        /\ admitted' = IF verdict.ok
                        THEN [admitted EXCEPT ![ClientIp(xff)] = Append(@, now)]
                        ELSE admitted
        /\ reqs' = Append(reqs,
              IF ~verdict.ok
              THEN Respond(NewRequest(xff, method, body), RateLimitedResponse)
              ELSE IF method = "OPTIONS"
              THEN Respond(NewRequest(xff, method, body), PreflightResponse)
              ELSE NewRequest(xff, method, body))
  /\ UNCHANGED <<now, cache, pureVars>>

\* serve from its entry to `await req.json()`: the preflight answer, or the
\* rate-limit check and its 429.
Arrive(maxReq, xff, method, body) ==
  /\ Len(reqs) < maxReq
  /\ IF method = "OPTIONS"
     THEN /\ reqs' = Append(reqs, Respond(NewRequest(xff, method, body), PreflightResponse))
          /\ UNCHANGED <<rateLimits, admitted>>
     ELSE LET verdict == checkRateLimit(rateLimits, now, ClientIp(xff))
          IN /\ rateLimits' = verdict.rateLimits
             /\ admitted' = IF verdict.ok
                             THEN [admitted EXCEPT ![ClientIp(xff)] = Append(@, now)]
                             ELSE admitted
             /\ reqs' = Append(reqs,
                   IF verdict.ok THEN NewRequest(xff, method, body)
                   ELSE Respond(NewRequest(xff, method, body), RateLimitedResponse))
  /\ UNCHANGED <<now, cache, pureVars>>

\* Variant: a cache hit refreshes the timestamp of the entry it read.
ReadBodyTouchesEntry(i) ==
  /\ i \in 1 .. Len(reqs)
  /\ reqs[i].pc = "json"
  /\ reqs' = [reqs EXCEPT ![i] = Dispatch(reqs[i], cache, now)]
  /\ LET r2 == Dispatch(reqs[i], cache, now)
         read == {r2.runs[k].url : k \in {n \in DOMAIN r2.runs : r2.runs[n].hit}}
     IN cache' = [u \in DOMAIN cache |->
                    IF u \in read THEN Entry(cache[u][1].data, now) ELSE cache[u]]
  /\ UNCHANGED <<now, rateLimits, admitted, pureVars>>

\* Variant: a request answered 400 gives its place in the window back.
ReadBodyRefunds(i) ==
  /\ i \in 1 .. Len(reqs)
  /\ reqs[i].pc = "json"
  /\ reqs' = [reqs EXCEPT ![i] = Dispatch(reqs[i], cache, now)]
  /\ LET r2 == Dispatch(reqs[i], cache, now)
         ip == ClientIp(reqs[i].xff)
     IN rateLimits' =
          IF r2.pc = "done" /\ r2.resp[1].status = 400 /\ rateLimits[ip] # <<>>
          THEN [rateLimits EXCEPT ![ip] = SubSeq(@, 1, Len(@) - 1)]
          ELSE rateLimits
  /\ UNCHANGED <<now, cache, admitted, pureVars>>

\* Variant: a batch records one timestamp per URL: the one of its arrival
\* and one more for each further URL when its body is read.
ReadBodyRecordsUrls(i) ==
  /\ i \in 1 .. Len(reqs)
  /\ reqs[i].pc = "json"
  /\ reqs' = [reqs EXCEPT ![i] = Dispatch(reqs[i], cache, now)]
  /\ LET b == reqs[i].body
         more == IF b.json /\ b.object /\ b.hasUrls /\ ~TooManyUrls(b.urls)
                 THEN Len(b.urls) - 1 ELSE 0
     IN rateLimits' = [rateLimits EXCEPT ![ClientIp(reqs[i].xff)] =
                         @ \o [n \in 1 .. more |-> now]]
  /\ UNCHANGED <<now, cache, admitted, pureVars>>

\* req.json() resolves: the handler runs on to its next await or its return.
ReadBody(i) ==
  /\ i \in 1 .. Len(reqs)
  /\ reqs[i].pc = "json"
  /\ reqs' = [reqs EXCEPT ![i] = Dispatch(reqs[i], cache, now)]
  /\ UNCHANGED <<now, cache, rateLimits, admitted, pureVars>>

\* fetch(proxyUrl) settles for run k of request i.
FetchReturn(i, k, o) ==
  /\ i \in 1 .. Len(reqs)
  /\ k \in 1 .. Len(reqs[i].runs)
  /\ reqs[i].runs[k].st = "fetch"
  /\ reqs' = [reqs EXCEPT ![i] =
       CASE o.kind = "reject" -> FailRun(reqs[i], k, now, o, o.message)
         [] o.kind = "notok" ->
              FailRun(reqs[i], k, now, o,
                      IF reqs[i].pc = "single" THEN MsgNotOkSingle ELSE MsgNotOkBatch)
         [] OTHER -> [reqs[i] EXCEPT !.runs[k].st = "body",
                                     !.runs[k].got = Append(@, o)]]
  /\ UNCHANGED <<now, cache, rateLimits, admitted, pureVars>>

\* Variant: a run that fails at response.json() deletes the entry of its URL.
JsonReturnDropsEntry(i, k, o) ==
  /\ i \in 1 .. Len(reqs)
  /\ k \in 1 .. Len(reqs[i].runs)
  /\ reqs[i].runs[k].st = "body"
  /\ CASE o.kind = "reject" ->
            /\ reqs' = [reqs EXCEPT ![i] = FailRun(reqs[i], k, now, o, o.message)]
            /\ cache' = [cache EXCEPT ![reqs[i].runs[k].url] = NoEntry]
       [] o.kind = "empty" ->
            /\ reqs' = [reqs EXCEPT ![i] =
                 FailRun(reqs[i], k, now, o,
                         IF reqs[i].pc = "single" THEN MsgNoContentSingle
                         ELSE MsgNoContentBatch)]
            /\ cache' = [cache EXCEPT ![reqs[i].runs[k].url] = NoEntry]
       [] OTHER ->
            /\ cache' = CacheSet(cache, reqs[i].runs[k].url,
                                 StoredResult(reqs[i], o.html, reqs[i].runs[k].url), now)
            /\ reqs' = [reqs EXCEPT ![i] = SucceedRun(reqs[i], k, now, o, o.html, cache')]
  /\ UNCHANGED <<now, rateLimits, admitted, pureVars>>

\* response.json() settles for run k of request i; a page is extracted,
\* scored and stored.
JsonReturn(i, k, o) ==
  /\ i \in 1 .. Len(reqs)
  /\ k \in 1 .. Len(reqs[i].runs)
  /\ reqs[i].runs[k].st = "body"
  /\ CASE o.kind = "reject" ->
            /\ reqs' = [reqs EXCEPT ![i] = FailRun(reqs[i], k, now, o, o.message)]
            /\ UNCHANGED cache
       [] o.kind = "empty" ->
            /\ reqs' = [reqs EXCEPT ![i] =
                 FailRun(reqs[i], k, now, o,
                         IF reqs[i].pc = "single" THEN MsgNoContentSingle
                         ELSE MsgNoContentBatch)]
            /\ UNCHANGED cache
       [] OTHER ->
            /\ cache' = CacheSet(cache, reqs[i].runs[k].url,
                                 StoredResult(reqs[i], o.html, reqs[i].runs[k].url), now)
            /\ reqs' = [reqs EXCEPT ![i] = SucceedRun(reqs[i], k, now, o, o.html, cache')]
  /\ UNCHANGED <<now, rateLimits, admitted, pureVars>>

\* Time passes: the clock moves on to a later instant t.
Tick(t) ==
  /\ now < t
  /\ now' = t
  /\ UNCHANGED <<cache, rateLimits, reqs, admitted, pureVars>>

-----------------------------------------------------------------------------
(* Spec: single requests and one-URL batches, at instants around the cache *)
(* TTL, with a fetcher that answers one of two pages or a failure status   *)

Address == <<"203.0.113.7">>

Bodies == {SingleBody(UrlA), SingleBody(UrlBad), BatchBody(<<UrlA>>),
           BatchBody(<<UrlBad>>), EmptyBody}

CacheInstants == {CACHE_TTL - 1, CACHE_TTL}

SpecFetchOutcomes == {FetchOk, FetchNotOk}

SpecJsonOutcomes == {JsonContents(p) : p \in Pages}

Next ==
  \/ \E b \in Bodies : Arrive(MaxRequests, Address, "POST", b)
  \/ \E i \in 1 .. MaxRequests : ReadBody(i)
  \/ \E i \in 1 .. MaxRequests, k \in 1 .. MAX_BATCH, o \in SpecFetchOutcomes :
       FetchReturn(i, k, o)
  \/ \E i \in 1 .. MaxRequests, k \in 1 .. MAX_BATCH, o \in SpecJsonOutcomes :
       JsonReturn(i, k, o)
  \/ \E t \in CacheInstants : Tick(t)

Spec == Init /\ [][Next]_vars

-----------------------------------------------------------------------------
(* SpecOverlap: analyses of one URL that overlap, as single requests and   *)
(* as the two slots of one batch                                           *)

OverlapBodies == {SingleBody(UrlA), BatchBody(<<UrlA, UrlA>>)}

NextOverlap ==
  \/ \E b \in OverlapBodies : Arrive(MaxOverlapRequests, Address, "POST", b)
  \/ \E i \in 1 .. MaxOverlapRequests : ReadBody(i)
  \/ \E i \in 1 .. MaxOverlapRequests, k \in 1 .. MAX_BATCH : FetchReturn(i, k, FetchOk)
  \/ \E i \in 1 .. MaxOverlapRequests, k \in 1 .. MAX_BATCH, o \in SpecJsonOutcomes :
       JsonReturn(i, k, o)
  \/ \E t \in CacheInstants : Tick(t)

SpecOverlap == Init /\ [][NextOverlap]_vars

-----------------------------------------------------------------------------
(* SpecBatch: batches of up to two URLs                                    *)

BatchBodies == {BatchBody(<<>>), BatchBody(<<UrlA>>), BatchBody(<<UrlA, UrlBad>>),
                BatchBody(<<UrlA, UrlA>>)}

NextBatch ==
  \/ \E b \in BatchBodies : Arrive(MaxBatchRequests, Address, "POST", b)
  \/ \E i \in 1 .. MaxBatchRequests : ReadBody(i)
  \/ \E i \in 1 .. MaxBatchRequests, k \in 1 .. MAX_BATCH, o \in SpecFetchOutcomes :
       FetchReturn(i, k, o)
  \/ \E i \in 1 .. MaxBatchRequests, k \in 1 .. MAX_BATCH, o \in SpecJsonOutcomes :
       JsonReturn(i, k, o)
  \/ \E t \in CacheInstants : Tick(t)

SpecBatch == Init /\ [][NextBatch]_vars

-----------------------------------------------------------------------------
(* SpecCap: batches at and above the cap, with a fetcher that answers a    *)
(* failure status                                                          *)

FiveUrls == <<UrlA, UrlBad, UrlA, UrlB, UrlBad>>

SixUrls == Append(FiveUrls, UrlA)

CapBodies == {BatchBody(FiveUrls), BatchBody(SixUrls)}

NextCap ==
  \/ \E b \in CapBodies : Arrive(MaxCapRequests, Address, "POST", b)
  \/ \E i \in 1 .. MaxCapRequests : ReadBody(i)
  \/ \E i \in 1 .. MaxCapRequests, k \in 1 .. MAX_BATCH : FetchReturn(i, k, FetchNotOk)

SpecCap == Init /\ [][NextCap]_vars

-----------------------------------------------------------------------------
(* SpecIsolation: one batch of distinct URLs, with a fetcher that fails in *)
(* each of its ways                                                        *)

IsolationBodies == {BatchBody(<<UrlA, UrlB>>), BatchBody(<<UrlB, UrlBad, UrlA>>)}

IsolationFetchOutcomes == {FetchOk, FetchNotOk, FetchReject(MsgTransportA)}

IsolationJsonOutcomes == {JsonContents(PageRich), JsonEmpty}

NextIsolation ==
  \/ \E b \in IsolationBodies : Arrive(MaxIsolationRequests, Address, "POST", b)
  \/ \E i \in 1 .. MaxIsolationRequests : ReadBody(i)
  \/ \E i \in 1 .. MaxIsolationRequests, k \in 1 .. MAX_BATCH,
        o \in IsolationFetchOutcomes : FetchReturn(i, k, o)
  \/ \E i \in 1 .. MaxIsolationRequests, k \in 1 .. MAX_BATCH,
        o \in IsolationJsonOutcomes : JsonReturn(i, k, o)

SpecIsolation == Init /\ [][NextIsolation]_vars

-----------------------------------------------------------------------------
(* SpecValidate: single requests and one-URL batches for URLs that are no  *)
(* absolute http(s) URLs, next to one that is                              *)

ValidateBodies == {SingleBody(UrlBad), SingleBody(UrlFtp), SingleBody(UrlB),
                   BatchBody(<<UrlBad>>), BatchBody(<<UrlFtp>>)}

ValidateInstants == {CACHE_TTL}

NextValidate ==
  \/ \E b \in ValidateBodies : Arrive(MaxValidateRequests, Address, "POST", b)
  \/ \E i \in 1 .. MaxValidateRequests : ReadBody(i)
  \/ \E i \in 1 .. MaxValidateRequests, k \in 1 .. MAX_BATCH, o \in SpecFetchOutcomes :
       FetchReturn(i, k, o)
  \/ \E i \in 1 .. MaxValidateRequests, k \in 1 .. MAX_BATCH, o \in SpecJsonOutcomes :
       JsonReturn(i, k, o)
  \/ \E t \in ValidateInstants : Tick(t)

SpecValidate == Init /\ [][NextValidate]_vars

-----------------------------------------------------------------------------
(* SpecRate: the rate limiter at instants around the 60-second window.     *)
(* It starts in a state the server is in after k1 and k2 requests of the   *)
(* two identities, all received and answered at time 0.                    *)

Zeros(k) == [i \in 1 .. k |-> 0]

RateStart == {0, RATE_LIMIT - 1, RATE_LIMIT}

InitRate ==
  /\ now = 0
  /\ cache = [u \in AllUrls |-> NoEntry]
  /\ \E k1 \in RateStart, k2 \in RateStart :
       rateLimits = [ip \in Identities |->
                       IF ip = "unknown" THEN Zeros(k1) ELSE Zeros(k2)]
  /\ admitted = rateLimits
  /\ reqs = <<>>
  /\ seoData = [url |-> UrlA]
  /\ seoScore = <<>>
  /\ uiScore = <<>>
  /\ page = <<>>

RateHeaders == {NoHeader, Address}

RateInstants == {RATE_WINDOW - 1, RATE_WINDOW, 2 * RATE_WINDOW - 1}

NextRate ==
  \/ \E h \in RateHeaders, m \in {"POST", "OPTIONS"} :
       Arrive(MaxRateRequests, h, m, EmptyBody)
  \/ \E i \in 1 .. MaxRateRequests : ReadBody(i)
  \/ \E t \in RateInstants : Tick(t)

SpecRate == InitRate /\ [][NextRate]_vars

-----------------------------------------------------------------------------
(* SpecErrors: single requests and bodies without a url, with a fetcher    *)
(* that fails in each of its ways                                          *)

ErrorBodies == {SingleBody(UrlA), EmptyBody, JsonNullBody, MalformedBody}

NextErrors ==
  \/ \E b \in ErrorBodies : Arrive(MaxErrorRequests, Address, "POST", b)
  \/ \E i \in 1 .. MaxErrorRequests : ReadBody(i)
  \/ \E i \in 1 .. MaxErrorRequests, k \in 1 .. MAX_BATCH, o \in FetchOutcomes :
       FetchReturn(i, k, o)
  \/ \E i \in 1 .. MaxErrorRequests, k \in 1 .. MAX_BATCH, o \in JsonOutcomes :
       JsonReturn(i, k, o)

SpecErrors == Init /\ [][NextErrors]_vars

-----------------------------------------------------------------------------
(* SpecThrottle: requests with a url, from one identity whose window is    *)
(* empty, one short of full, or full                                       *)

ThrottleBodies == {SingleBody(UrlA), BatchBody(<<UrlA>>)}

ThrottleInstants == {RATE_WINDOW}

NextThrottle ==
  \/ \E b \in ThrottleBodies : Arrive(MaxThrottleRequests, Address, "POST", b)
  \/ \E i \in 1 .. MaxThrottleRequests : ReadBody(i)
  \/ \E i \in 1 .. MaxThrottleRequests, k \in 1 .. MAX_BATCH :
       FetchReturn(i, k, FetchOk)
  \/ \E i \in 1 .. MaxThrottleRequests, k \in 1 .. MAX_BATCH :
       JsonReturn(i, k, JsonContents(PageRich))
  \/ \E t \in ThrottleInstants : Tick(t)

SpecThrottle == InitRate /\ [][NextThrottle]_vars

-----------------------------------------------------------------------------
(* SpecScore: calculateSEOScore on its own.  It starts from a metadata     *)
(* record in which any set of the fields the scorer reads has a value, the *)
(* others being absent or empty, and then fills in fields one by one.      *)

\* The fields of SEOData that calculateSEOScore reads.
ScoredFields == {"title", "description", "h1", "ogTitle", "ogDescription", "ogImage",
                 "canonical", "lang", "viewport", "charset", "metaRobots"}

\* Fields of SEOData that it does not read, as far as the records of this
\* specification have them.
OtherFields == {"keywords", "twitterCard"}

RobotsValues == {"index, follow", "noindex", "noindex, nofollow"}

FieldValues(f) == IF f = "metaRobots" THEN RobotsValues ELSE {"Example Domain"}

\* The record whose fields in P have a value; the other scored fields are
\* empty strings (asEmpty) or absent.
MakeRecord(P, robots, asEmpty) ==
  [f \in (IF asEmpty THEN ScoredFields ELSE P) \cup {"url"} |->
     IF f = "url" THEN UrlA
     ELSE IF f \notin P THEN ""
     ELSE IF f = "metaRobots" THEN robots ELSE "Example Domain"]

\* All the fields of SEOData that calculateSEOScore does not read, but url.
UnreadFields == {"keywords", "ogType", "twitterCard", "twitterTitle",
                 "twitterDescription", "twitterImage"}

\* The record data with a value in every field the scorer does not read.
WithUnread(data) ==
  [f \in DOMAIN data \cup UnreadFields |->
     IF f \in UnreadFields THEN "summary" ELSE data[f]]

InitScore ==
  /\ now = 0
  /\ cache = [u \in AllUrls |-> NoEntry]
  /\ rateLimits = [ip \in Identities |-> <<>>]
  /\ reqs = <<>>
  /\ admitted = [ip \in Identities |-> <<>>]
  /\ \E P \in SUBSET ScoredFields, robots \in RobotsValues, asEmpty \in BOOLEAN :
       seoData \in {MakeRecord(P, robots, asEmpty),
                    WithUnread(MakeRecord(P, robots, asEmpty))}
  /\ seoScore = <<>>
  /\ uiScore = <<>>
  /\ page = <<>>

\* calculateSEOScore is applied to the record.
Score ==
  /\ seoScore = <<>>
  /\ seoScore' = <<calculateSEOScore(seoData)>>
  /\ UNCHANGED <<seoData, uiScore, page, serverVars>>

\* A field without a value gets one, and the new record is scored.
SetField(f, v) ==
  /\ seoScore # <<>>
  /\ ~Truthy(seoData, f)
  /\ seoData' = [g \in DOMAIN seoData \cup {f} |-> IF g = f THEN v ELSE seoData[g]]
  /\ seoScore' = <<calculateSEOScore(seoData')>>
  /\ UNCHANGED <<uiScore, page, serverVars>>

NextScore ==
  \/ Score
  \/ \E f \in ScoredFields \cup OtherFields : \E v \in FieldValues(f) : SetField(f, v)

SpecScore == InitScore /\ [][NextScore]_vars

-----------------------------------------------------------------------------
(* SpecEquivalence: one record given to the scorer of the function and to  *)
(* the scorer of the UI component                                          *)

\* setSeoScore(calculateSEOScore(data)) in the component.
ScoreInUi ==
  /\ uiScore = <<>>
  /\ uiScore' = <<SEOTester_calculateSEOScore(seoData)>>
  /\ UNCHANGED <<seoData, seoScore, page, serverVars>>

NextEquivalence == Score \/ ScoreInUi

SpecEquivalence == InitScore /\ [][NextEquivalence]_vars

-----------------------------------------------------------------------------
(* SpecAnonymous: requests without an x-forwarded-for header, with an      *)
(* empty one, and with an address                                          *)

NextAnonymous ==
  \/ \E h \in Headers : Arrive(MaxAnonymousRequests, h, "POST", EmptyBody)
  \/ \E i \in 1 .. MaxAnonymousRequests : ReadBody(i)
  \/ \E t \in RateInstants : Tick(t)

SpecAnonymous == InitRate /\ [][NextAnonymous]_vars

-----------------------------------------------------------------------------
(* SpecPreflight: OPTIONS requests next to requests that fill the cache    *)
(* and the window of the identity                                          *)

NextPreflight ==
  \/ \E m \in {"POST", "OPTIONS"} :
       Arrive(MaxPreflightRequests, Address, m, SingleBody(UrlA))
  \/ \E i \in 1 .. MaxPreflightRequests : ReadBody(i)
  \/ \E i \in 1 .. MaxPreflightRequests, k \in 1 .. MAX_BATCH :
       FetchReturn(i, k, FetchOk)
  \/ \E i \in 1 .. MaxPreflightRequests, k \in 1 .. MAX_BATCH :
       JsonReturn(i, k, JsonContents(PageRich))
  \/ \E t \in ThrottleInstants : Tick(t)

SpecPreflight == InitRate /\ [][NextPreflight]_vars

-----------------------------------------------------------------------------
(* SpecPipeline: analyses that succeed, fail validation, or fail at the    *)
(* fetch or at the body, before and after the expiry of an entry           *)

PipelineBodies == {SingleBody(UrlA), SingleBody(UrlBad), BatchBody(<<UrlBad, UrlA>>)}

PipelineFetchOutcomes == {FetchOk, FetchNotOk, FetchReject(MsgTransportA)}

PipelineJsonOutcomes == {JsonContents(PageRich), JsonEmpty}

NextPipeline ==
  \/ \E b \in PipelineBodies : Arrive(MaxPipelineRequests, Address, "POST", b)
  \/ \E i \in 1 .. MaxPipelineRequests : ReadBody(i)
  \/ \E i \in 1 .. MaxPipelineRequests, k \in 1 .. MAX_BATCH,
        o \in PipelineFetchOutcomes : FetchReturn(i, k, o)
  \/ \E i \in 1 .. MaxPipelineRequests, k \in 1 .. MAX_BATCH,
        o \in PipelineJsonOutcomes : JsonReturn(i, k, o)
  \/ \E t \in ValidateInstants : Tick(t)

SpecPipeline == Init /\ [][NextPipeline]_vars

-----------------------------------------------------------------------------
(* SpecGate: single requests and batches of one to five URLs at the rate   *)
(* limiter, with a fetcher that fails                                      *)

GateBodies == {SingleBody(UrlA), BatchBody(<<UrlA>>), BatchBody(FiveUrls)}

NextGate ==
  \/ \E h \in RateHeaders, b \in GateBodies : Arrive(MaxGateRequests, h, "POST", b)
  \/ \E i \in 1 .. MaxGateRequests : ReadBody(i)
  \/ \E i \in 1 .. MaxGateRequests, k \in 1 .. MAX_BATCH : FetchReturn(i, k, FetchNotOk)

SpecGate == InitRate /\ [][NextGate]_vars

-----------------------------------------------------------------------------
(* SpecOutcomes: requests that end in each of the handler's outcomes, and  *)
(* OPTIONS requests between them                                           *)

OutcomeBodies == {SingleBody(UrlA), SingleBody(UrlFtp), EmptyBody, BatchBody(SixUrls)}

OutcomeFetchOutcomes == {FetchOk, FetchNotOk}

NextOutcomes ==
  \/ \E m \in {"POST", "OPTIONS"}, b \in OutcomeBodies :
       Arrive(MaxOutcomeRequests, Address, m, b)
  \/ \E i \in 1 .. MaxOutcomeRequests : ReadBody(i)
  \/ \E i \in 1 .. MaxOutcomeRequests, k \in 1 .. MAX_BATCH,
        o \in OutcomeFetchOutcomes : FetchReturn(i, k, o)
  \/ \E i \in 1 .. MaxOutcomeRequests, k \in 1 .. MAX_BATCH :
       JsonReturn(i, k, JsonContents(PageRich))
  \/ \E t \in ThrottleInstants : Tick(t)

SpecOutcomes == Init /\ [][NextOutcomes]_vars

-----------------------------------------------------------------------------
(* SpecExpiry: an entry that is read, as a single request and as a batch,  *)
(* up to and at the end of its TTL                                         *)

ExpiryBodies == {SingleBody(UrlA), BatchBody(<<UrlA>>)}

NextExpiry ==
  \/ \E b \in ExpiryBodies : Arrive(MaxExpiryRequests, Address, "POST", b)
  \/ \E i \in 1 .. MaxExpiryRequests : ReadBody(i)
  \/ \E i \in 1 .. MaxExpiryRequests, k \in 1 .. MAX_BATCH : FetchReturn(i, k, FetchOk)
  \/ \E i \in 1 .. MaxExpiryRequests, k \in 1 .. MAX_BATCH :
       JsonReturn(i, k, JsonContents(PageRich))
  \/ \E t \in CacheInstants : Tick(t)

SpecExpiry == Init /\ [][NextExpiry]_vars

-----------------------------------------------------------------------------
(* SpecLive: single requests and batches of two URLs, where every promise  *)
(* the handler awaits settles: req.json(), fetch() and response.json()     *)

LiveBodies == {SingleBody(UrlA), BatchBody(<<UrlA, UrlB>>)}

\* The slots of the largest batch of LiveBodies.
LiveSlots == DOMAIN <<UrlA, UrlB>>

LiveFetchOutcomes == {FetchOk, FetchNotOk}

LiveJsonOutcomes == {JsonContents(PageRich), JsonEmpty}

NextLive ==
  \/ \E b \in LiveBodies : Arrive(MaxLiveRequests, Address, "POST", b)
  \/ \E i \in 1 .. MaxLiveRequests : ReadBody(i)
  \/ \E i \in 1 .. MaxLiveRequests, k \in LiveSlots, o \in LiveFetchOutcomes :
       FetchReturn(i, k, o)
  \/ \E i \in 1 .. MaxLiveRequests, k \in LiveSlots, o \in LiveJsonOutcomes :
       JsonReturn(i, k, o)

\* Each awaited promise settles: the body of each request is read, and each
\* issued fetch and each body read of a response returns.
LiveFairness ==
  /\ \A i \in 1 .. MaxLiveRequests : WF_vars(ReadBody(i))
  /\ \A i \in 1 .. MaxLiveRequests, k \in LiveSlots :
       /\ WF_vars(\E o \in LiveFetchOutcomes : FetchReturn(i, k, o))
       /\ WF_vars(\E o \in LiveJsonOutcomes : JsonReturn(i, k, o))

SpecLive == Init /\ [][NextLive]_vars /\ LiveFairness

-----------------------------------------------------------------------------
(* SpecExtract: the extractor on its own, on documents of an html element  *)
(* followed by up to MaxElements elements, in document order               *)

HtmlElements == {El("html", <<>>, ""), El("html", [lang |-> "en"], "")}

Elements ==
  { El("meta", [name |-> "description", content |-> "by name"], ""),
    El("meta", [name |-> "description", content |-> "second by name"], ""),
    El("meta", [name |-> "description"], ""),
    El("meta", [content |-> "by property", property |-> "description"], ""),
    El("meta", [name |-> "twitter:card", content |-> ""], ""),
    El("meta", [content |-> "summary", property |-> "twitter:card"], ""),
    El("meta", [content |-> "og", property |-> "og:title"], ""),
    El("meta", [content |-> "second og", property |-> "og:title"], ""),
    El("meta", [name |-> "og:title", content |-> "og by name"], ""),
    El("meta", [charset |-> "utf-8"], ""),
    El("title", <<>>, "T1"),
    El("title", <<>>, ""),
    El("h1", <<>>, "H1"),
    El("link", [rel |-> "stylesheet", href |-> "/s.css"], ""),
    El("link", [rel |-> "canonical", href |-> "https://a.example/"], "") }

SourceUrls == {UrlA, UrlBad}

InitExtract ==
  /\ now = 0
  /\ cache = [u \in AllUrls |-> NoEntry]
  /\ rateLimits = [ip \in Identities |-> <<>>]
  /\ reqs = <<>>
  /\ admitted = [ip \in Identities |-> <<>>]
  /\ \E u \in SourceUrls : seoData = [url |-> u]
  /\ seoScore = <<>>
  /\ uiScore = <<>>
  /\ \E h \in HtmlElements : page = <<h>>

\* The ReferenceError of `new DOMParser()` on a host whose global scope has
\* no DOMParser: the module neither declares nor imports the name.
MsgNoDomParser == "DOMParser is not defined"

\* The record of seoData is the result of extractMetaData.
IsExtracted == "title" \in DOMAIN seoData

\* extractMetaData has thrown; seoData holds the message in place of a result.
HasThrown == "error" \in DOMAIN seoData

\* The document has one more element.
AddElement(e) ==
  /\ ~IsExtracted /\ ~HasThrown
  /\ Len(page) < 1 + MaxElements
  /\ page' = Append(page, e)
  /\ UNCHANGED <<seoData, seoScore, uiScore, serverVars>>

\* const seoData = extractMetaData(data.contents, url), on a host that
\* provides DOMParser (dom) and on one that does not.
Extract(dom) ==
  /\ ~IsExtracted /\ ~HasThrown
  /\ seoData' = IF dom THEN extractMetaData(page, seoData.url)
                 ELSE [url |-> seoData.url, error |-> MsgNoDomParser]
  /\ UNCHANGED <<page, seoScore, uiScore, serverVars>>

NextExtract ==
  \/ \E e \in Elements : AddElement(e)
  \/ \E dom \in BOOLEAN : Extract(dom)

SpecExtract == InitExtract /\ [][NextExtract]_vars

-----------------------------------------------------------------------------
(* Vocabulary of the properties                                            *)

\* Every run of every request received so far, as <<request, slot>>.
RunIds == {<<i, k>> : i \in DOMAIN reqs, k \in 1 .. MAX_BATCH} \cap
          {ik \in (DOMAIN reqs) \X (1 .. MAX_BATCH) : ik[2] \in DOMAIN reqs[ik[1]].runs}

RunOf(ik) == reqs[ik[1]].runs[ik[2]]

\* The run has ended with a successful analysis (fresh, or from the cache).
Succeeded(run) == run.out # <<>> /\ run.out[1].success

\* The run analysed a page itself and stored the result.
Stored(run) == run.wrote # <<>>

Answered(i) == reqs[i].pc = "done"

StatusOf(i) == reqs[i].resp[1].status

\* The step is ReadBody of request i: its handler leaves `await req.json()`.
ReadsBody(i) == i \in DOMAIN reqs /\ reqs[i].pc = "json" /\ reqs'[i].pc # "json"

-----------------------------------------------------------------------------
(* C1  cache hit within the TTL                                            *)

\* C1 (as claimed): once an analysis of U has stored its result at time s,
\* every analysis of U that starts later, while now - s < TTL, issues no
\* fetch and returns cached:true with the data and score of that analysis.
C1_LaterAnalysisReturnsFirstResult ==
  [][\A i \in DOMAIN reqs : ReadsBody(i) =>
       \A k \in DOMAIN reqs'[i].runs : \A jm \in RunIds :
         LET first == RunOf(jm)
             later == reqs'[i].runs[k]
         IN (first.url = later.url /\ Stored(first)
             /\ now - first.doneAt[1] < CACHE_TTL)
            => /\ later.fetches = 0
               /\ later.out # <<>>
               /\ "cached" \in DOMAIN later.out[1]
               /\ later.out[1].cached
               /\ later.out[1].data = first.out[1].data
               /\ later.out[1].score = first.out[1].score]_vars

\* What the code does do there: no fetch, cached:true, and the data and
\* score of the entry the cache holds at that moment.
C1_LaterAnalysisReturnsCachedEntry ==
  [][\A i \in DOMAIN reqs : ReadsBody(i) =>
       \A k \in DOMAIN reqs'[i].runs : \A jm \in RunIds :
         LET first == RunOf(jm)
             later == reqs'[i].runs[k]
         IN (first.url = later.url /\ Stored(first)
             /\ now - first.doneAt[1] < CACHE_TTL)
            => /\ later.fetches = 0
               /\ later.out # <<>>
               /\ "cached" \in DOMAIN later.out[1]
               /\ later.out[1].cached
               /\ later.out[1].data = cache[later.url][1].data.data
               /\ later.out[1].score = cache[later.url][1].data.score]_vars

-----------------------------------------------------------------------------
(* C2  one fetch per URL and TTL window                                    *)

\* C2 (as claimed): of two successful analyses of one URL that start within
\* one TTL window, not both from a live entry, exactly one issues a fetch.
C2_OneFetchPerWindow ==
  \A a \in RunIds, b \in RunIds :
    (/\ a # b
     /\ RunOf(a).url = RunOf(b).url
     /\ Succeeded(RunOf(a)) /\ Succeeded(RunOf(b))
     /\ RunOf(a).checkedAt - RunOf(b).checkedAt < CACHE_TTL
     /\ RunOf(b).checkedAt - RunOf(a).checkedAt < CACHE_TTL
     /\ ~(RunOf(a).hit /\ RunOf(b).hit))
    => RunOf(a).fetches + RunOf(b).fetches = 1

\* The same, for two analyses that do not overlap: the second starts after
\* the first has ended.  (Holds; the violations of C2 are all overlaps.)
C2_OneFetchWhenSequential ==
  [][\A i \in DOMAIN reqs : ReadsBody(i) =>
       \A k \in DOMAIN reqs'[i].runs : \A jm \in RunIds :
         (/\ RunOf(jm).url = reqs'[i].runs[k].url
          /\ Stored(RunOf(jm))
          /\ now - RunOf(jm).checkedAt < CACHE_TTL)
         => RunOf(jm).fetches + reqs'[i].runs[k].fetches = 1]_vars

-----------------------------------------------------------------------------
(* C3  expiry at age = TTL                                                 *)

AgeSeen(run) == run.checkedAt - run.seen[1].timestamp

\* C3 (as claimed): the cache check is a hit exactly when an entry exists
\* with age < TTL; a run that finds an entry of age >= TTL issues a fetch,
\* and when its analysis succeeds the entry becomes the new result with
\* storedAt = the time of the store.
C3_ExpiredEntryIsRefetched ==
  \A a \in RunIds :
    LET run == RunOf(a)
    IN /\ run.hit <=> (run.seen # NoEntry /\ AgeSeen(run) < CACHE_TTL)
       /\ (run.seen # NoEntry /\ AgeSeen(run) >= CACHE_TTL) =>
            /\ run.fetches = 1
            /\ (run.st = "done" /\ Succeeded(run)) =>
                 /\ Stored(run)
                 /\ run.wrote[1].timestamp = run.doneAt[1]
                 /\ run.wrote[1].data.data = run.out[1].data
                 /\ run.wrote[1].data.score = run.out[1].score

\* The same for the URLs that pass the validation of the single pipeline.
\* (Holds; the violations of C3 are single requests for a URL that fails
\* validation and that a batch has cached.)
C3_ExpiredEntryOfValidUrlIsRefetched ==
  \A a \in RunIds :
    LET run == RunOf(a)
    IN /\ run.hit <=> (run.seen # NoEntry /\ AgeSeen(run) < CACHE_TTL)
       /\ (run.seen # NoEntry /\ AgeSeen(run) >= CACHE_TTL /\ ValidUrl(run.url)) =>
            /\ run.fetches = 1
            /\ (run.st = "done" /\ Succeeded(run)) =>
                 /\ Stored(run)
                 /\ run.wrote[1].timestamp = run.doneAt[1]
                 /\ run.wrote[1].data.data = run.out[1].data
                 /\ run.wrote[1].data.score = run.out[1].score

-----------------------------------------------------------------------------
(* The rate limiter: C4 .. C8                                              *)

\* The step is an arrival that calls checkRateLimit (any method but OPTIONS).
Arrival == Len(reqs') = Len(reqs) + 1 /\ reqs'[Len(reqs')].method # "OPTIONS"

Newcomer == reqs'[Len(reqs')]

Caller == ClientIp(Newcomer.xff)

\* The arriving request was admitted / rejected.
NewcomerAdmitted ==
  /\ Newcomer.pc = "json"
  /\ Newcomer.resp = <<>>
  /\ admitted'[Caller] = Append(admitted[Caller], now)

NewcomerRejected == Newcomer.pc = "done" /\ Newcomer.resp[1].status = 429

Rejected(i) == reqs[i].method # "OPTIONS" /\ Answered(i) /\ StatusOf(i) = 429

Range(w) == {w[n] : n \in DOMAIN w}

Oldest(w) == CHOOSE t \in Range(w) : \A u \in Range(w) : t <= u

FreshCount(w, t) == Cardinality({n \in DOMAIN w : t - w[n] < RATE_WINDOW})

\* C4: per identity, no 11 admissions lie less than 60 seconds apart, and a
\* request that arrives when 10 requests of its identity were admitted in
\* the 60 seconds before it is answered 429.
C4_AtMostTenAdmittedPerWindow ==
  /\ \A ip \in Identities : \A n \in DOMAIN admitted[ip] :
       n + RATE_LIMIT <= Len(admitted[ip])
       => admitted[ip][n + RATE_LIMIT] - admitted[ip][n] >= RATE_WINDOW
  /\ \A i \in DOMAIN reqs :
       (reqs[i].method # "OPTIONS" /\ reqs[i].prior >= RATE_LIMIT)
       => (Answered(i) /\ StatusOf(i) = 429)

\* The 11th request of an identity within 60 seconds, rejected, while the
\* other identity has been admitted.
C4_Witness ==
  \E i \in DOMAIN reqs :
    /\ reqs[i].prior = RATE_LIMIT
    /\ Rejected(i)
    /\ reqs[i].at = RATE_WINDOW - 1
    /\ \E j \in DOMAIN reqs : j < i /\ ClientIp(reqs[j].xff) # ClientIp(reqs[i].xff)
                              /\ reqs[j].method # "OPTIONS" /\ ~Rejected(j)

\* C5: a request is admitted whenever fewer than 10 stored timestamps of its
\* identity are less than 60 seconds old, in particular once the oldest
\* stored timestamp of a full window is 60 seconds old.
C5_AdmittedBelowTheLimit ==
  [][Arrival =>
       LET w == rateLimits[Caller]
       IN (\/ FreshCount(w, now) < RATE_LIMIT
           \/ (w # <<>> /\ now - Oldest(w) >= RATE_WINDOW))
          => NewcomerAdmitted]_vars

\* A request rejected at 59,999 ms, and the next request of that identity,
\* at 60,000 ms, admitted on a window that was full.
C5_Witness ==
  \E i \in DOMAIN reqs, j \in DOMAIN reqs :
    /\ j < i
    /\ ClientIp(reqs[j].xff) = ClientIp(reqs[i].xff)
    /\ Rejected(j)
    /\ reqs[j].at = RATE_WINDOW - 1
    /\ reqs[i].method # "OPTIONS" /\ ~Rejected(i)
    /\ reqs[i].at = RATE_WINDOW
    /\ Len(admitted[ClientIp(reqs[i].xff)]) = RATE_LIMIT + 1
    /\ admitted[ClientIp(reqs[i].xff)][1] = 0

\* C6: a rejected call leaves the stored window of every identity as it was.
C6_RejectionRecordsNothing ==
  [][(Arrival /\ NewcomerRejected) => rateLimits' = rateLimits]_vars

\* A rejected request while both identities have a stored window.
C6_Witness ==
  \E i \in DOMAIN reqs :
    /\ Rejected(i)
    /\ \A ip \in Identities : rateLimits[ip] # <<>>

\* C7: every stored window has at most RATE_LIMIT timestamps, oldest first.
C7_WindowBoundedAndOrdered ==
  \A ip \in Identities :
    /\ Len(rateLimits[ip]) <= RATE_LIMIT
    /\ \A m \in DOMAIN rateLimits[ip], n \in DOMAIN rateLimits[ip] :
         m < n => rateLimits[ip][m] <= rateLimits[ip][n]

\* A full window that holds timestamps of two different times.
C7_Witness ==
  \E ip \in Identities :
    /\ Len(rateLimits[ip]) = RATE_LIMIT
    /\ rateLimits[ip][1] < rateLimits[ip][RATE_LIMIT]

\* C8 (as claimed): in every state, no stored timestamp is 60 seconds old
\* or older.
C8_NoStaleTimestampStored ==
  \A ip \in Identities : \A n \in DOMAIN rateLimits[ip] :
    now - rateLimits[ip][n] < RATE_WINDOW

\* C8 (amended): right after a checkRateLimit call, the stored window of
\* the calling identity holds only timestamps less than 60 seconds old.
C8_CallLeavesOnlyFreshTimestamps ==
  [][Arrival =>
       \A n \in DOMAIN rateLimits'[Caller] :
         now' - rateLimits'[Caller][n] < RATE_WINDOW]_vars

\* A call has dropped stale timestamps: the newest request of an identity
\* is admitted, and its stored window is shorter than its history.
C8_Witness ==
  \E i \in DOMAIN reqs :
    LET ip == ClientIp(reqs[i].xff)
    IN /\ reqs[i].method # "OPTIONS" /\ ~Rejected(i)
       /\ reqs[i].at = now
       /\ rateLimits[ip] # <<>>
       /\ Len(rateLimits[ip]) < Len(admitted[ip])
       /\ \A n \in DOMAIN rateLimits[ip] : now - rateLimits[ip][n] < RATE_WINDOW

-----------------------------------------------------------------------------
(* Batches: C9, C10                                                        *)

IsBatch(i) == reqs[i].method # "OPTIONS" /\ reqs[i].body.json /\ reqs[i].body.hasUrls

\* C9: a batch of more than 5 URLs is answered 400 without any run being
\* started (no cache lookup, no fetch, no cache write); a batch of at most
\* 5 URLs starts one run per URL and is not answered 400.
C9_BatchCap ==
  \A i \in DOMAIN reqs :
    (IsBatch(i) /\ ~Rejected(i) /\ reqs[i].pc # "json") =>
      IF Len(reqs[i].body.urls) > MAX_BATCH
      THEN /\ Answered(i)
           /\ reqs[i].resp[1] = TooManyUrlsResponse
           /\ StatusOf(i) = 400
           /\ reqs[i].runs = <<>>
      ELSE /\ Len(reqs[i].runs) = Len(reqs[i].body.urls)
           /\ Answered(i) => StatusOf(i) = 200

\* A batch of 6 URLs, answered 400.
C9_Witness ==
  \E i \in DOMAIN reqs :
    /\ IsBatch(i)
    /\ Len(reqs[i].body.urls) = MAX_BATCH + 1
    /\ Answered(i)
    /\ StatusOf(i) = 400

\* The result entry a run must yield, from what the run met: a live cache
\* entry, a page, or a failure.
EntryMatches(entry, u, run) ==
  /\ entry.url = u
  /\ IF run.hit
     THEN /\ entry.success /\ entry.cached
          /\ entry.data = run.seen[1].data.data
          /\ entry.score = run.seen[1].data.score
     ELSE IF run.got # <<>> /\ run.got[Len(run.got)].kind = "contents"
     THEN /\ entry.success
          /\ entry.data = extractMetaData(run.got[Len(run.got)].html, u)
          /\ entry.score = calculateSEOScore(entry.data)
     ELSE /\ ~entry.success
          /\ "error" \in DOMAIN entry

\* C10: an accepted batch of n URLs answers n result entries, entry k with
\* the url of input k and the outcome of input k.
C10_BatchResultsInInputOrder ==
  \A i \in DOMAIN reqs :
    (IsBatch(i) /\ Answered(i) /\ ~Rejected(i)
     /\ Len(reqs[i].body.urls) <= MAX_BATCH) =>
      LET urls == reqs[i].body.urls
          results == reqs[i].resp[1].body.results
      IN /\ StatusOf(i) = 200
         /\ Len(results) = Len(urls)
         /\ \A k \in DOMAIN urls : EntryMatches(results[k], urls[k], reqs[i].runs[k])

\* A batch of two different URLs, answered, whose second run ended first,
\* one run with a page and the other with a failure.
C10_Witness ==
  \E i \in DOMAIN reqs :
    /\ IsBatch(i) /\ Answered(i)
    /\ reqs[i].body.urls = <<UrlA, UrlBad>>
    /\ reqs[i].order = <<2, 1>>
    /\ reqs[i].resp[1].body.results[1].success
    /\ ~reqs[i].resp[1].body.results[2].success

-----------------------------------------------------------------------------
(* C11  a failure stays in its slot                                        *)

\* The fetcher failed the run: a failure status, a rejected fetch, a
\* rejected response.json() or an answer without contents.
FetcherFailed(run) ==
  run.got # <<>> /\ run.got[Len(run.got)].kind \in {"notok", "reject", "empty"}

Distinct(urls) == \A m \in DOMAIN urls, n \in DOMAIN urls : m # n => urls[m] # urls[n]

-----------------------------------------------------------------------------
(* C12 .. C14  validation                                                  *)

\* Request i is an admitted single-URL request whose body has been read.
IsSingle(i) ==
  /\ reqs[i].method # "OPTIONS" /\ ~Rejected(i) /\ reqs[i].pc # "json"
  /\ reqs[i].body.json /\ reqs[i].body.object
  /\ ~reqs[i].body.hasUrls /\ reqs[i].body.url # ""

NoFetchNoStore(run) == run.fetches = 0 /\ run.got = <<>> /\ run.wrote = <<>>

\* C12 (as claimed): a single-URL request whose url is no absolute http(s)
\* URL is answered 400 (InvalidUrl), with no fetch issued and no cache
\* write.
C12_InvalidUrlIsRejected ==
  \A i \in DOMAIN reqs :
    (IsSingle(i) /\ ~ValidUrl(reqs[i].body.url)) =>
      /\ Answered(i)
      /\ StatusOf(i) = 400
      /\ reqs[i].resp[1] = InvalidUrlResponse
      /\ \A k \in DOMAIN reqs[i].runs : NoFetchNoStore(reqs[i].runs[k])

\* What the code does: the same, unless the cache holds a live entry for
\* the url; never a fetch, never a cache write.
C12_InvalidUrlIsRejectedOnAMiss ==
  \A i \in DOMAIN reqs :
    (IsSingle(i) /\ ~ValidUrl(reqs[i].body.url)) =>
      /\ Answered(i)
      /\ ~reqs[i].runs[1].hit =>
           (StatusOf(i) = 400 /\ reqs[i].resp[1] = InvalidUrlResponse)
      /\ \A k \in DOMAIN reqs[i].runs : NoFetchNoStore(reqs[i].runs[k])

\* C13 (as claimed): whatever requests came before, a single-URL request
\* whose url is no absolute http(s) URL is answered 400 and not from the
\* cache.
C13_InvalidUrlNeverServedFromCache ==
  \A i \in DOMAIN reqs :
    (IsSingle(i) /\ ~ValidUrl(reqs[i].body.url) /\ Answered(i)) =>
      /\ StatusOf(i) = 400
      /\ "cached" \notin DOMAIN reqs[i].resp[1].body
      /\ \A k \in DOMAIN reqs[i].runs : ~reqs[i].runs[k].hit

\* C14 (as claimed): a batch element that is no absolute http(s) URL gets
\* an error outcome in its slot, no fetch is issued for it and nothing is
\* cached under it.
C14_BatchElementIsValidated ==
  \A i \in DOMAIN reqs :
    IsBatch(i) =>
      \A k \in DOMAIN reqs[i].runs :
        ~ValidUrl(reqs[i].runs[k].url) =>
          /\ reqs[i].runs[k].fetches = 0
          /\ reqs[i].runs[k].wrote = <<>>
          /\ cache[reqs[i].runs[k].url] = NoEntry
          /\ reqs[i].runs[k].out # <<>> => ~reqs[i].runs[k].out[1].success

-----------------------------------------------------------------------------
(* C15  status of a fetch failure                                          *)

\* C15 (as claimed): a single-URL request whose fetcher failed (failure
\* status, transport error, no contents) is answered 502, and a 500 answer
\* is given only to requests whose fetcher did not fail.
C15_FetchFailureIs502 ==
  \A i \in DOMAIN reqs :
    (IsSingle(i) /\ Answered(i)) =>
      /\ (\E k \in DOMAIN reqs[i].runs : FetcherFailed(reqs[i].runs[k]))
           => StatusOf(i) = 502
      /\ StatusOf(i) = 500
           => \A k \in DOMAIN reqs[i].runs : ~FetcherFailed(reqs[i].runs[k])

\* What the code does: 502 when the message of the error contains "fetch",
\* which it does for a failure status; otherwise 500 with that message.
C15_FailureStatusIs502 ==
  \A i \in DOMAIN reqs :
    (IsSingle(i) /\ Answered(i) /\ reqs[i].runs[1].got # <<>>) =>
      LET last == reqs[i].runs[1].got[Len(reqs[i].runs[1].got)]
      IN /\ last.kind = "notok" => StatusOf(i) = 502
         /\ last.kind = "empty" =>
              (StatusOf(i) = 500 /\ reqs[i].resp[1].body.error = MsgNoContentSingle)
         /\ last.kind = "reject" =>
              IF IncludesFetch(last.message) THEN StatusOf(i) = 502
              ELSE StatusOf(i) = 500 /\ reqs[i].resp[1].body.error = last.message
         /\ last.kind = "contents" => StatusOf(i) = 200

-----------------------------------------------------------------------------
(* C16  the 429 answer                                                     *)

\* C16: a request that checkRateLimit rejects is answered at once with 429
\* and retryAfter; the step leaves the cache as it was, starts no run (no
\* cache lookup, no fetch, no cache write), and nothing is done for the
\* request afterwards.
C16_RejectedBeforeAnyProcessing ==
  [][/\ (Arrival /\ ~checkRateLimit(rateLimits, now, Caller).ok) =>
          /\ Newcomer.pc = "done"
          /\ Newcomer.resp = <<RateLimitedResponse>>
          /\ Newcomer.resp[1].status = 429
          /\ Newcomer.resp[1].body.retryAfter = 60
          /\ Newcomer.runs = <<>>
          /\ cache' = cache
      /\ \A i \in DOMAIN reqs : Rejected(i) => reqs'[i] = reqs[i]]_vars

\* A request for a url is rejected while the cache holds a live entry for
\* that url, and the clock has moved on since.
C16_Witness ==
  \E i \in DOMAIN reqs :
    /\ Rejected(i)
    /\ reqs[i].body.url = UrlA
    /\ CacheLive(cache[UrlA], reqs[i].at)
    /\ now > reqs[i].at

-----------------------------------------------------------------------------
(* C17  a body without a url                                               *)

\* Request i is admitted, its body has been read, and the body has neither
\* a url nor an array urls.
HasNoUrl(i) ==
  /\ reqs[i].method # "OPTIONS" /\ ~Rejected(i) /\ reqs[i].pc # "json"
  /\ reqs[i].body.json
  /\ ~reqs[i].body.hasUrls /\ reqs[i].body.url = ""

\* C17 (as claimed): an admitted request whose body has neither a url nor
\* an array urls is answered 400 "URL parameter is required", and no run
\* is started for it (no fetch, no cache access).
C17_MissingUrlIs400 ==
  \A i \in DOMAIN reqs :
    HasNoUrl(i) =>
      /\ Answered(i)
      /\ StatusOf(i) = 400
      /\ reqs[i].resp[1].body.error = "URL parameter is required"
      /\ reqs[i].runs = <<>>

\* What the code does: the same for every body that is not null.
C17_MissingUrlOfAnObjectIs400 ==
  \A i \in DOMAIN reqs :
    (HasNoUrl(i) /\ reqs[i].body.object) =>
      /\ Answered(i)
      /\ StatusOf(i) = 400
      /\ reqs[i].resp[1].body.error = "URL parameter is required"
      /\ reqs[i].runs = <<>>

-----------------------------------------------------------------------------
(* C18 .. C20  the scorer                                                  *)

Bands(sc) == sc.breakdown

\* C18: total = basic + social + technical, with basic in 0..40, social
\* in 0..30, technical in 0..30 and total in 0..100.
C18_ScoreWithinBands ==
  seoScore # <<>> =>
  /\ seoScore[1] = calculateSEOScore(seoData)
  /\ seoScore[1].total = Bands(seoScore[1]).basic + Bands(seoScore[1]).social
                      + Bands(seoScore[1]).technical
  /\ Bands(seoScore[1]).basic \in 0 .. 40
  /\ Bands(seoScore[1]).social \in 0 .. 30
  /\ Bands(seoScore[1]).technical \in 0 .. 30
  /\ seoScore[1].total \in 0 .. 100

\* A record with both titles, both descriptions and every other scored
\* field: every band at its maximum.
C18_Witness ==
  /\ seoScore # <<>>
  /\ \A f \in ScoredFields : Truthy(seoData, f)
  /\ Bands(seoScore[1]) = [basic |-> 40, social |-> 30, technical |-> 30]
  /\ seoScore[1].total = 100

\* Only url has a value: every other field is absent or empty.
IsEmptyRecord(data) ==
  /\ "url" \in DOMAIN data
  /\ \A f \in DOMAIN data \ {"url"} : data[f] = ""

\* C19 (as claimed): an empty record scores total 0, basic 0, social 0 and
\* technical 0.
C19_EmptyRecordScoresZero ==
  (seoScore # <<>> /\ IsEmptyRecord(seoData)) =>
    /\ seoScore[1].total = 0
    /\ Bands(seoScore[1]) = [basic |-> 0, social |-> 0, technical |-> 0]

\* C19 (amended): an empty record scores total 5, basic 0, social 0 and
\* technical 5: the robots rule gives its 5 points to a record without a
\* robots value.
C19_EmptyRecordScoresFive ==
  (seoScore # <<>> /\ IsEmptyRecord(seoData)) =>
    /\ seoScore[1].total = 5
    /\ Bands(seoScore[1]) = [basic |-> 0, social |-> 0, technical |-> 5]

\* The record {url}, scored.
C19_Witness ==
  /\ DOMAIN seoData = {"url"}
  /\ seoScore = <<calculateSEOScore(seoData)>>
  /\ seoScore[1].total = 5

\* The step gives a value to field f, which had none, and changes no other
\* field.
AddsField(f) ==
  /\ seoScore # <<>> /\ seoScore' # <<>>
  /\ ~Truthy(seoData, f)
  /\ Truthy(seoData', f)
  /\ DOMAIN seoData' = DOMAIN seoData \cup {f}
  /\ \A g \in DOMAIN seoData \ {f} : seoData'[g] = seoData[g]

NoBandDecreases ==
  /\ Bands(seoScore'[1]).basic >= Bands(seoScore[1]).basic
  /\ Bands(seoScore'[1]).social >= Bands(seoScore[1]).social
  /\ Bands(seoScore'[1]).technical >= Bands(seoScore[1]).technical
  /\ seoScore'[1].total >= seoScore[1].total

\* C20 (as claimed): giving any non-empty value to any field that had none
\* decreases no band and not the total.
C20_AddingAFieldNeverLowersTheScore ==
  [][\A f \in ScoredFields \cup OtherFields : AddsField(f) => NoBandDecreases]_vars

\* C20 (amended): that holds for every field but metaRobots, and for
\* metaRobots when the value does not contain "noindex"; a metaRobots value
\* that contains "noindex" lowers technical and total by 5 and leaves
\* basic and social as they were.
C20_AddingAQualifyingFieldNeverLowersTheScore ==
  [][\A f \in ScoredFields \cup OtherFields : AddsField(f) =>
       IF f = "metaRobots" /\ IncludesNoindex(seoData'.metaRobots)
       THEN /\ Bands(seoScore'[1]).technical = Bands(seoScore[1]).technical - 5
            /\ seoScore'[1].total = seoScore[1].total - 5
            /\ Bands(seoScore'[1]).basic = Bands(seoScore[1]).basic
            /\ Bands(seoScore'[1]).social = Bands(seoScore[1]).social
       ELSE NoBandDecreases]_vars

\* A record that has got a field the scorer does not read, a title next to
\* an Open Graph title, and a robots value with "noindex".
C20_Witness ==
  /\ Truthy(seoData, "keywords")
  /\ Truthy(seoData, "title") /\ Truthy(seoData, "ogTitle")
  /\ Truthy(seoData, "metaRobots") /\ IncludesNoindex(seoData.metaRobots)
  /\ seoScore = <<calculateSEOScore(seoData)>>

-----------------------------------------------------------------------------
(* C21, C22  the rule table                                                *)

Ind(data, f) == IF f \in DOMAIN data /\ data[f] # "" THEN 1 ELSE 0

Either(a, b) == IF a + b > 0 THEN 1 ELSE 0

RobotsOk(data) ==
  IF Ind(data, "metaRobots") = 0 THEN 1
  ELSE IF IncludesNoindex(data.metaRobots) THEN 0 ELSE 1

\* The rule table of the scorer.
RuleTable(data) ==
  [basic |-> 15 * Ind(data, "title") + 15 * Ind(data, "description")
             + 10 * Ind(data, "h1"),
   social |-> 8 * Either(Ind(data, "ogTitle"), Ind(data, "title"))
              + 8 * Either(Ind(data, "ogDescription"), Ind(data, "description"))
              + 14 * Ind(data, "ogImage"),
   technical |-> 10 * Ind(data, "canonical") + 5 * Ind(data, "lang")
                 + 5 * Ind(data, "viewport") + 5 * Ind(data, "charset")
                 + 5 * RobotsOk(data)]

\* The record without the fields that the rule table does not name.
NamedOnly(data) == [f \in DOMAIN data \cap ScoredFields |-> data[f]]

-----------------------------------------------------------------------------
(* C23  the shared identity of anonymous requests                          *)

\* The request carries no x-forwarded-for header, or an empty one.
Anonymous(r) == r.xff = <<>> \/ r.xff[1] = ""

\* C23: a request without (or with an empty) x-forwarded-for header is
\* checked against, and recorded in, the one window of "unknown": it is
\* rejected when that window holds 10 timestamps less than 60 seconds old,
\* whichever anonymous requests put them there.
C23_AnonymousRequestsShareOneWindow ==
  [][(Arrival /\ Anonymous(Newcomer)) =>
       LET w == rateLimits["unknown"]
       IN IF FreshCount(w, now) >= RATE_LIMIT
          THEN NewcomerRejected /\ rateLimits' = rateLimits
          ELSE /\ Newcomer.pc = "json"
               /\ rateLimits' = [rateLimits EXCEPT
                                   !["unknown"] = Append(Recent(w, now), now)]]_vars

\* A request with an empty header is rejected less than 60 seconds after
\* a request without the header took the last free place of the window.
C23_Witness ==
  \E i \in DOMAIN reqs, j \in DOMAIN reqs :
    /\ i < j
    /\ reqs[i].xff = NoHeader /\ reqs[i].method # "OPTIONS" /\ ~Rejected(i)
    /\ reqs[i].prior = RATE_LIMIT - 1
    /\ reqs[j].xff = <<"">> /\ Rejected(j)
    /\ reqs[j].at - reqs[i].at < RATE_WINDOW

-----------------------------------------------------------------------------
(* C24  the preflight answer                                               *)

\* C24: an OPTIONS request is answered on arrival with status 200, no body
\* and the CORS headers, whatever the rate limiter and the cache hold.
C24_PreflightIsAlways200 ==
  \A i \in DOMAIN reqs :
    reqs[i].method = "OPTIONS" =>
      /\ Answered(i)
      /\ StatusOf(i) = 200
      /\ reqs[i].resp[1].body = NullBody
      /\ reqs[i].resp[1].headers = CorsHeaders
      /\ reqs[i].runs = <<>>

\* An OPTIONS request answered 200 on arrival while the window of its
\* identity held 10 fresh timestamps and the cache a live entry.
C24_Witness ==
  \E i \in DOMAIN reqs :
    /\ reqs[i].method = "OPTIONS"
    /\ Answered(i) /\ StatusOf(i) = 200
    /\ reqs[i].prior = RATE_LIMIT
    /\ cache[UrlA] # NoEntry
    /\ cache[UrlA][1].timestamp <= reqs[i].at
    /\ CacheLive(cache[UrlA], reqs[i].at)

-----------------------------------------------------------------------------
(* C25  a live entry under overlapping analyses                            *)

\* C25 (as claimed): once an entry for a URL is stored, no step changes its
\* value or its timestamp while its age is below the TTL.
C25_LiveEntryIsReadOnly ==
  [][\A u \in AllUrls :
       (cache[u] # NoEntry /\ now - cache[u][1].timestamp < CACHE_TTL)
         => cache'[u] = cache[u]]_vars

\* What the code does guarantee: every store is made by an analysis whose
\* own cache check, at its start, found no live entry.  (Holds; the entry
\* may have been stored by another analysis in between.)
C25_StoresFollowAMiss ==
  \A a \in RunIds :
    Stored(RunOf(a)) =>
      /\ ~RunOf(a).hit
      /\ RunOf(a).seen = NoEntry \/ AgeSeen(RunOf(a)) >= CACHE_TTL

-----------------------------------------------------------------------------
(* C26  the cache is written by successful analyses only                   *)

\* Run k of request i ends in this step.
RunEnds(i, k) ==
  /\ k \in DOMAIN reqs'[i].runs
  /\ reqs'[i].runs[k].st = "done"
  /\ k \in DOMAIN reqs[i].runs => reqs[i].runs[k].st # "done"

\* C26: an entry changes only in the step in which an analysis of its URL
\* ends successfully after a fetch, and becomes what that analysis stored;
\* a step in which an analysis ends without success (invalid URL, failed
\* fetch, failed body) leaves the whole cache unchanged, expired entries
\* included.
C26_OnlySuccessWritesTheCache ==
  [][/\ \A u \in AllUrls :
          cache'[u] # cache[u] =>
            \E i \in DOMAIN reqs : \E k \in DOMAIN reqs[i].runs :
              /\ reqs[i].runs[k].url = u
              /\ RunEnds(i, k)
              /\ Succeeded(reqs'[i].runs[k])
              /\ reqs'[i].runs[k].fetches = 1
              /\ reqs'[i].runs[k].wrote = cache'[u]
     /\ \A i \in DOMAIN reqs : \A k \in DOMAIN reqs'[i].runs :
          (RunEnds(i, k) /\ ~Succeeded(reqs'[i].runs[k])) => cache' = cache]_vars

\* Two analyses that found expired entries for their URLs have failed, one
\* at the fetch and one at the body, and the entries are still there.
C26_Witness ==
  \E a \in RunIds, b \in RunIds :
    /\ RunOf(a).st = "done" /\ RunOf(b).st = "done"
    /\ ~Succeeded(RunOf(a)) /\ ~Succeeded(RunOf(b))
    /\ RunOf(a).got = <<FetchNotOk>> /\ RunOf(b).got = <<FetchOk, JsonEmpty>>
    /\ RunOf(a).seen # NoEntry /\ AgeSeen(RunOf(a)) >= CACHE_TTL
    /\ RunOf(b).seen # NoEntry /\ AgeSeen(RunOf(b)) >= CACHE_TTL
    /\ cache[RunOf(a).url] = RunOf(a).seen
    /\ cache[RunOf(b).url] = RunOf(b).seen

-----------------------------------------------------------------------------
(* C27  no retries                                                         *)

\* C27: a run issues at most one fetch and reads at most one response, and
\* a run whose fetch or body failed has ended with an error outcome: the
\* error entry of its slot in a batch, the 500 or 502 answer of a single
\* request.
C27_NoRetries ==
  \A a \in RunIds :
    LET run == RunOf(a)
        i == a[1]
    IN /\ run.fetches <= 1
       /\ Len(run.got) <= 2
       /\ FetcherFailed(run) =>
            /\ run.st = "done"
            /\ run.wrote = <<>>
            /\ IF reqs[i].body.hasUrls
               THEN /\ run.out # <<>>
                    /\ ~run.out[1].success
                    /\ "error" \in DOMAIN run.out[1]
               ELSE /\ Answered(i)
                    /\ StatusOf(i) \in {500, 502}
                    /\ ~reqs[i].resp[1].body.success

\* A single request and a batch slot whose one fetch failed have ended with
\* their error outcomes.
C27_Witness ==
  \E a \in RunIds, b \in RunIds :
    /\ ~reqs[a[1]].body.hasUrls /\ reqs[b[1]].body.hasUrls
    /\ RunOf(a).fetches = 1 /\ RunOf(b).fetches = 1
    /\ RunOf(a).got = <<FetchNotOk>> /\ RunOf(b).got = <<FetchReject(MsgTransportA)>>
    /\ Answered(a[1]) /\ StatusOf(a[1]) \in {500, 502}
    /\ RunOf(b).st = "done" /\ ~RunOf(b).out[1].success

-----------------------------------------------------------------------------
(* C28  the cached field of batch entries                                  *)

\* C28 (as claimed): every successful entry of an answered batch has a
\* boolean field cached, true when the run was served from a live cache
\* entry and false when it fetched.
C28_BatchEntriesCarryCached ==
  \A i \in DOMAIN reqs :
    (IsBatch(i) /\ Answered(i) /\ StatusOf(i) = 200) =>
      \A k \in DOMAIN reqs[i].runs :
        LET entry == reqs[i].resp[1].body.results[k]
        IN entry.success =>
             /\ "cached" \in DOMAIN entry
             /\ entry.cached \in BOOLEAN
             /\ entry.cached <=> reqs[i].runs[k].hit

\* What the code does do: an entry served from the cache has cached = TRUE,
\* and a freshly fetched one has no field cached at all.
C28_OnlyHitsCarryCached ==
  \A i \in DOMAIN reqs :
    (IsBatch(i) /\ Answered(i) /\ StatusOf(i) = 200) =>
      \A k \in DOMAIN reqs[i].runs :
        LET entry == reqs[i].resp[1].body.results[k]
        IN entry.success =>
             IF reqs[i].runs[k].hit
             THEN "cached" \in DOMAIN entry /\ entry.cached
             ELSE /\ reqs[i].runs[k].fetches = 1
                  /\ DOMAIN entry = {"url", "data", "score", "success"}

-----------------------------------------------------------------------------
(* C29  the top level of a batch answer                                    *)

\* C29: an admitted batch of at most 5 URLs, once answered, has status 200
\* and success = TRUE at the top level with one entry per URL, however many
\* of its entries are failures.
C29_AcceptedBatchIs200 ==
  \A i \in DOMAIN reqs :
    (IsBatch(i) /\ ~Rejected(i) /\ Answered(i)
       /\ Len(reqs[i].body.urls) <= MAX_BATCH) =>
      /\ StatusOf(i) = 200
      /\ reqs[i].resp[1].body.success
      /\ Len(reqs[i].resp[1].body.results) = Len(reqs[i].body.urls)

\* A batch of three URLs is answered 200 with success = TRUE although each
\* of its entries is a failure.
C29_Witness ==
  \E i \in DOMAIN reqs :
    /\ IsBatch(i) /\ Answered(i) /\ StatusOf(i) = 200
    /\ reqs[i].resp[1].body.success
    /\ Len(reqs[i].body.urls) = 3
    /\ \A k \in 1 .. 3 : ~reqs[i].resp[1].body.results[k].success

-----------------------------------------------------------------------------
(* C30  the rate limiter gates the request, not its URLs                   *)

\* C30: the arrival of an admitted request, batch or single, appends one
\* timestamp to the window of its identity and leaves the other windows
\* alone; no other step of the handler touches the rate limiter, and the
\* step that reads a batch of n <= 5 URLs starts all n runs.
C30_OneTimestampPerRequest ==
  [][/\ (Arrival /\ ~NewcomerRejected) =>
          /\ rateLimits'[Caller] = Append(Recent(rateLimits[Caller], now), now)
          /\ \A ip \in Identities \ {Caller} : rateLimits'[ip] = rateLimits[ip]
     /\ ~Arrival => (rateLimits' = rateLimits /\ admitted' = admitted)
     /\ \A i \in DOMAIN reqs :
          (ReadsBody(i) /\ IsBatch(i) /\ Len(reqs[i].body.urls) <= MAX_BATCH) =>
            /\ Len(reqs'[i].runs) = Len(reqs[i].body.urls)
            /\ \A k \in DOMAIN reqs'[i].runs : reqs'[i].runs[k].lookups = 1]_vars

\* A batch of five URLs arrived when the window of its identity held nine
\* fresh timestamps; all five analyses have run, and the window holds those
\* nine and the one of the arrival, ten in all.
C30_Witness ==
  \E i \in DOMAIN reqs :
    /\ IsBatch(i) /\ Answered(i) /\ StatusOf(i) = 200
    /\ Len(reqs[i].body.urls) = MAX_BATCH
    /\ Len(reqs[i].runs) = MAX_BATCH
    /\ \A k \in DOMAIN reqs[i].runs : reqs[i].runs[k].fetches = 1
    /\ reqs[i].prior = RATE_LIMIT - 1
    /\ Len(rateLimits[ClientIp(reqs[i].xff)]) = RATE_LIMIT
    /\ rateLimits[ClientIp(reqs[i].xff)] = Append(Zeros(RATE_LIMIT - 1), reqs[i].at)

-----------------------------------------------------------------------------
(* C31  the windows of different identities are independent                *)

\* C31: a call of checkRateLimit for one identity, admitted or rejected,
\* leaves the window of every other identity unchanged, and its verdict
\* depends on the window of its own identity alone.
C31_WindowsAreIndependent ==
  [][Arrival =>
       /\ \A ip \in Identities \ {Caller} : rateLimits'[ip] = rateLimits[ip]
       /\ NewcomerRejected <=> FreshCount(rateLimits[Caller], now) >= RATE_LIMIT]_vars

\* One identity has been rejected and, at the same instant, a request of
\* another identity has taken the last free place of its own window.
C31_Witness ==
  \E i \in DOMAIN reqs, j \in DOMAIN reqs :
    /\ i < j
    /\ Rejected(i)
    /\ reqs[j].method # "OPTIONS" /\ ~Rejected(j)
    /\ ClientIp(reqs[i].xff) # ClientIp(reqs[j].xff)
    /\ reqs[j].at = reqs[i].at
    /\ reqs[j].prior = RATE_LIMIT - 1

-----------------------------------------------------------------------------
(* C32  one timestamp per admitted request, none for OPTIONS               *)

\* The step is the arrival of an OPTIONS request.
Preflight == Len(reqs') = Len(reqs) + 1 /\ reqs'[Len(reqs')].method = "OPTIONS"

\* C32: the arrival of an admitted request appends one timestamp to the
\* window of its identity, and no later step of its handler, whatever the
\* outcome, adds or removes one; the arrival of an OPTIONS request leaves
\* the rate-limiter map and the cache unchanged.
C32_AdmissionIsRecordedOnce ==
  [][/\ (Arrival /\ ~NewcomerRejected) =>
          /\ Len(rateLimits'[Caller]) = FreshCount(rateLimits[Caller], now) + 1
          /\ rateLimits'[Caller][Len(rateLimits'[Caller])] = now
          /\ cache' = cache
     /\ Preflight => (rateLimits' = rateLimits /\ cache' = cache)
     /\ \A i \in DOMAIN reqs :
          reqs'[i] # reqs[i] => rateLimits' = rateLimits]_vars

\* Three requests of one identity at one instant: one is answered 400, one
\* 502 after its fetch failed, one is an OPTIONS request; the window holds
\* the two timestamps of the first two.
C32_Witness ==
  \E i \in DOMAIN reqs, j \in DOMAIN reqs, o \in DOMAIN reqs :
    /\ Answered(i) /\ reqs[i].method = "POST" /\ StatusOf(i) = 400
    /\ Answered(j) /\ reqs[j].method = "POST" /\ StatusOf(j) = 502
    /\ reqs[o].method = "OPTIONS" /\ Answered(o)
    /\ rateLimits[ClientIp(reqs[i].xff)] = <<reqs[i].at, reqs[j].at>>
    /\ reqs[o].at = reqs[i].at

-----------------------------------------------------------------------------
(* C33  a cache hit does not refresh the entry                             *)

\* C33: the step in which a run is served from the cache leaves the cache
\* unchanged, and whether a run that finds an entry is served from it
\* depends on the time since the entry was stored alone: it is a hit
\* exactly when that time is below the TTL.  The timestamp of an entry is
\* the time at which the run that stored it ended.
C33_HitLeavesTheEntryAlone ==
  [][\A i \in DOMAIN reqs : ReadsBody(i) =>
       \A k \in DOMAIN reqs'[i].runs :
         LET run == reqs'[i].runs[k]
             entry == cache[run.url]
         IN /\ run.hit => cache' = cache
            /\ entry # NoEntry =>
                 /\ run.hit <=> now - entry[1].timestamp < CACHE_TTL
                 /\ \E a \in RunIds : /\ RunOf(a).wrote = entry
                                      /\ RunOf(a).doneAt = <<entry[1].timestamp>>]_vars

\* An entry stored at time 0 was read at TTL - 1 and served; the next run,
\* at TTL, found the same entry and was not served from it.
C33_Witness ==
  \E a \in RunIds, b \in RunIds, c \in RunIds :
    /\ Stored(RunOf(a)) /\ RunOf(a).doneAt = <<0>>
    /\ RunOf(b).hit /\ RunOf(b).checkedAt = CACHE_TTL - 1
    /\ RunOf(b).seen = RunOf(a).wrote
    /\ ~RunOf(c).hit /\ RunOf(c).checkedAt = CACHE_TTL
    /\ RunOf(c).seen = RunOf(a).wrote
    /\ RunOf(c).fetches = 1

-----------------------------------------------------------------------------
(* C34  the retry hint of the 429 answer                                   *)

\* Request i was rejected at least 60 seconds ago and no request of that
\* identity has been admitted since.
RetryDue(i, ip) ==
  /\ Rejected(i)
  /\ ClientIp(reqs[i].xff) = ip
  /\ now - reqs[i].at >= RATE_WINDOW
  /\ \A j \in DOMAIN reqs :
       (j > i /\ reqs[j].method # "OPTIONS" /\ ClientIp(reqs[j].xff) = ip)
         => Rejected(j)

\* C34: a request that arrives 60 seconds or more after a 429 answer to
\* its identity, with no request of that identity admitted in between, is
\* admitted.
C34_RetryAfterIsSound ==
  [][(Arrival /\ \E i \in DOMAIN reqs : RetryDue(i, Caller)) =>
       /\ ~NewcomerRejected
       /\ Newcomer.pc = "json"
       /\ rateLimits'[Caller] = <<now>>]_vars

\* A request was answered 429 with retryAfter 60 at time 59,999 and the
\* next request of that identity, exactly 60 seconds later, was admitted.
C34_Witness ==
  \E i \in DOMAIN reqs, j \in DOMAIN reqs :
    /\ i < j
    /\ Rejected(i) /\ reqs[i].resp[1].body.retryAfter = 60
    /\ reqs[i].at = RATE_WINDOW - 1
    /\ ClientIp(reqs[j].xff) = ClientIp(reqs[i].xff)
    /\ reqs[j].method # "OPTIONS" /\ ~Rejected(j)
    /\ reqs[j].at = reqs[i].at + RATE_WINDOW
    /\ \A n \in DOMAIN reqs : (i < n /\ n < j) => reqs[n].xff # reqs[i].xff

-----------------------------------------------------------------------------
(* C35  every request is answered, once                                    *)

\* C35: when every awaited promise settles, every request received is
\* eventually answered; a request has one response when it is answered and
\* none before, an answered request never changes again, and a batch is
\* answered only when all of its runs have ended.
C35_EveryRequestIsAnsweredOnce ==
  /\ \A i \in 1 .. MaxLiveRequests :
       (Len(reqs) >= i) ~> (Len(reqs) >= i /\ Answered(i))
  /\ [](\A i \in DOMAIN reqs :
          /\ Len(reqs[i].resp) = IF Answered(i) THEN 1 ELSE 0
          /\ (IsBatch(i) /\ Answered(i)) => AllDone(reqs[i].runs))
  /\ [][\A i \in DOMAIN reqs : Answered(i) => reqs'[i] = reqs[i]]_vars

\* A batch whose two fetches both returned, one with a failure, and a
\* single request have been answered.
C35_Witness ==
  \E i \in DOMAIN reqs, j \in DOMAIN reqs :
    /\ IsBatch(i) /\ Answered(i) /\ StatusOf(i) = 200
    /\ Len(reqs[i].runs) = 2
    /\ reqs[i].runs[1].fetches = 1 /\ reqs[i].runs[2].fetches = 1
    /\ FetcherFailed(reqs[i].runs[2])
    /\ reqs[i].order = <<1, 2>>
    /\ ~IsBatch(j) /\ Answered(j) /\ reqs[j].runs[1].fetches = 1

-----------------------------------------------------------------------------
(* C39  the two scorers                                                    *)

\* C39: for every record, calculateSEOScore of the UI component and
\* calculateSEOScore of the function return the same total and the same
\* basic, social and technical values.
C39_ScorersAgree ==
  (seoScore # <<>> /\ uiScore # <<>>) =>
    /\ uiScore[1].total = seoScore[1].total
    /\ uiScore[1].breakdown.basic = seoScore[1].breakdown.basic
    /\ uiScore[1].breakdown.social = seoScore[1].breakdown.social
    /\ uiScore[1].breakdown.technical = seoScore[1].breakdown.technical

\* Both scorers have scored a record with a title, no Open Graph title and
\* a robots value that contains noindex, and both give it the same total.
C39_Witness ==
  /\ seoScore # <<>> /\ uiScore # <<>>
  /\ Truthy(seoData, "title") /\ ~Truthy(seoData, "ogTitle")
  /\ Truthy(seoData, "metaRobots") /\ IncludesNoindex(seoData.metaRobots)
  /\ uiScore[1].total = seoScore[1].total
  /\ seoScore[1].total > 0 /\ seoScore[1].total < 100

-----------------------------------------------------------------------------
(* The extractor: C36 .. C38                                               *)

\* The fields extractMetaData fills from the document.
TextFields ==
  {"title", "description", "ogTitle", "ogDescription", "ogImage", "ogType",
   "twitterCard", "twitterTitle", "twitterDescription", "twitterImage",
   "canonical", "keywords", "h1", "metaRobots", "lang", "viewport", "charset"}

\* The step is a call of extractMetaData.
Extracts == ~IsExtracted /\ ~HasThrown /\ seoData' # seoData

\* The record has all 18 fields, each field but url a string (never null),
\* and url is u.
WellTyped(data, u) ==
  /\ DOMAIN data = TextFields \cup {"url"}
  /\ \A f \in TextFields : data[f] \in STRING /\ data[f] # Null
  /\ data.url = u

\* C36 (as claimed): every call of extractMetaData returns a record with all
\* 18 fields, each field but url a string (never null), and url the
\* sourceUrl argument.
C36_ExtractIsTotalAndTyped ==
  [][Extracts => (IsExtracted' /\ WellTyped(seoData', seoData.url))]_vars

\* What the code does guarantee: a call that returns, returns such a record,
\* whatever the document.  (Holds.)
C36_ExtractIsTypedWhereItReturns ==
  [][(Extracts /\ IsExtracted') => WellTyped(seoData', seoData.url)]_vars

-----------------------------------------------------------------------------
(* C37  name first, property as the fallback; Open Graph by property only  *)

\* The meta elements of the document whose attribute a has the value k, as
\* the set of their places in document order.
MetaWith(a, k) ==
  {i \in DOMAIN page :
     /\ page[i].tag = "meta"
     /\ a \in DOMAIN page[i].attrs
     /\ page[i].attrs[a] = k}

Lowest(S) == CHOOSE i \in S : \A j \in S : i <= j

\* The content attribute of element i, the empty string if it has none.
ContentAt(i) ==
  IF "content" \in DOMAIN page[i].attrs THEN page[i].attrs.content ELSE ""

\* The fields read by name, and the fields read by property, with their keys.
NameKey ==
  [description |-> "description", keywords |-> "keywords", metaRobots |-> "robots",
   viewport |-> "viewport", twitterCard |-> "twitter:card",
   twitterTitle |-> "twitter:title", twitterDescription |-> "twitter:description",
   twitterImage |-> "twitter:image"]

PropertyKey ==
  [ogTitle |-> "og:title", ogDescription |-> "og:description",
   ogImage |-> "og:image", ogType |-> "og:type"]

\* C37: in an extracted record, a field read by name holds the content of
\* the first meta element with that name when there is one, wherever the
\* elements with that property stand; only when there is none, the content
\* of the first meta element with that property; an Open Graph field holds
\* the content of the first meta element with its property and ignores the
\* elements that carry the key as a name.
C37_NameThenProperty ==
  IsExtracted =>
    /\ \A f \in DOMAIN NameKey :
         LET byName == MetaWith("name", NameKey[f])
             byProperty == MetaWith("property", NameKey[f])
         IN seoData[f] = IF byName # {} THEN ContentAt(Lowest(byName))
                         ELSE IF byProperty # {} THEN ContentAt(Lowest(byProperty))
                         ELSE ""
    /\ \A f \in DOMAIN PropertyKey :
         LET byProperty == MetaWith("property", PropertyKey[f])
         IN seoData[f] = IF byProperty # {} THEN ContentAt(Lowest(byProperty)) ELSE ""

\* A document with the description by property before the description by
\* name, and with og:title as a name only: the description is the one by
\* name and ogTitle is empty.
C37_Witness ==
  /\ IsExtracted
  /\ MetaWith("property", "description") # {} /\ MetaWith("name", "description") # {}
  /\ Lowest(MetaWith("property", "description")) < Lowest(MetaWith("name", "description"))
  /\ seoData.description = "by name"
  /\ MetaWith("name", "og:title") # {} /\ MetaWith("property", "og:title") = {}
  /\ seoData.ogTitle = ""

-----------------------------------------------------------------------------
(* C38  the first match in document order, the empty string for none       *)

\* The elements with tag t, and their text.
Tagged(t) == {i \in DOMAIN page : page[i].tag = t}

\* The attribute a of element i, the empty string if it has none.
AttrAt(i, a) == IF a \in DOMAIN page[i].attrs THEN page[i].attrs[a] ELSE ""

\* C38: in an extracted record each field holds the value of the first
\* element in document order that matches its selector, and the empty
\* string when no element matches.
C38_FirstMatchOrEmpty ==
  IsExtracted =>
    LET titles == Tagged("title")
        h1s == Tagged("h1")
        htmls == Tagged("html")
        canonicals == {i \in Tagged("link") : AttrAt(i, "rel") = "canonical"}
        charsets == {i \in Tagged("meta") : "charset" \in DOMAIN page[i].attrs}
        ogs == MetaWith("property", "og:title")
        names == MetaWith("name", "description")
    IN /\ seoData.title = IF titles = {} THEN "" ELSE page[Lowest(titles)].text
       /\ seoData.h1 = IF h1s = {} THEN "" ELSE page[Lowest(h1s)].text
       /\ seoData.lang = IF htmls = {} THEN "" ELSE AttrAt(Lowest(htmls), "lang")
       /\ seoData.canonical = IF canonicals = {} THEN ""
                              ELSE AttrAt(Lowest(canonicals), "href")
       /\ seoData.charset = IF charsets = {} THEN ""
                            ELSE AttrAt(Lowest(charsets), "charset")
       /\ seoData.ogTitle = IF ogs = {} THEN "" ELSE ContentAt(Lowest(ogs))
       /\ names # {} => seoData.description = ContentAt(Lowest(names))
       /\ \A f \in {"keywords", "viewport", "metaRobots", "ogImage", "ogType"} :
            seoData[f] = ""

\* A document with two og:title elements and no title has been extracted:
\* ogTitle has the content of the one that stands first, and title and
\* keywords, for which no element matches, are empty.
C38_Witness ==
  /\ IsExtracted
  /\ \E i \in MetaWith("property", "og:title"), j \in MetaWith("property", "og:title") :
       /\ i < j
       /\ ContentAt(i) = "second og" /\ ContentAt(j) = "og"
  /\ seoData.ogTitle = "second og"
  /\ Tagged("title") = {}
  /\ seoData.title = "" /\ seoData.keywords = ""

====
